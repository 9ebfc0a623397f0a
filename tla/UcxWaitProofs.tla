--------------------------- MODULE UcxWaitProofs ---------------------------
(***************************************************************************)
(* Proofs about UcxWait for every set of endpoints and threads and every    *)
(* number of transfers.  For every usage: type correctness, and that every  *)
(* UCX request has exactly one owner.  For orderly usages: a wait that      *)
(* succeeds has its transfers done, and finds the endpoint alive.           *)
(***************************************************************************)
EXTENDS UcxWait, TLAPS

----------------------------------------------------------------------------
\* An endpoint files its own transfers, under ids it has not used before.
Ids ==
    /\ \A e \in Ep : nextWrid[e] <= Len(ops)
    /\ \A e \in Ep : \A o \in inflight[e] :
          o \in DOMAIN ops /\ ops[o].ep = e /\ ops[o].id # 0
    /\ \A o \in DOMAIN ops : ops[o].id <= nextWrid[ops[o].ep] + 1
    /\ \A o, p \in DOMAIN ops :
          ops[o].ep = ops[p].ep /\ ops[o].id = ops[p].id /\ ops[o].id # 0 => o = p

\* Only a thread that drives requests has any, and a single wait has one.
Places ==
    \A t \in Thread :
        /\ thread[t].held \subseteq DOMAIN ops
        /\ thread[t].asked \subseteq DOMAIN ops
        /\ thread[t].at \notin {"drive", "driveAll"} => thread[t].held = {}
        /\ thread[t].at = "drive" => \E o \in DOMAIN ops : thread[t].held = {o}
        /\ thread[t].at = "close" => thread[t].ep \notin table

\* No two owners, and no request without one.
Sole ==
    /\ \A t, u \in Thread : \A o \in thread[t].held : o \in thread[u].held => t = u
    /\ \A t \in Thread : \A o \in thread[t].held :
          o \notin freed /\ o \notin abandoned /\ \A e \in Ep : o \notin inflight[e]
    /\ \A e \in Ep : \A o \in inflight[e] : o \notin freed /\ o \notin abandoned
    /\ \A o \in freed : o \notin abandoned
    /\ \A o \in DOMAIN ops :
          \/ o \in freed \/ o \in abandoned
          \/ \E t \in Thread : o \in thread[t].held
          \/ \E e \in Ep : o \in inflight[e]

IInv == TypeOK /\ Ids /\ Places /\ Sole

----------------------------------------------------------------------------
\* What appending to a sequence does.
LEMMA AppendFacts ==
    ASSUME NEW S, NEW s \in Seq(S), NEW x \in S
    PROVE  /\ Append(s, x) \in Seq(S)
           /\ Len(Append(s, x)) = Len(s) + 1
           /\ Len(s) \in Nat
           /\ DOMAIN s = 1 .. Len(s)
           /\ DOMAIN Append(s, x) = 1 .. Len(s) + 1
           /\ \A i \in 1 .. Len(s) : Append(s, x)[i] = s[i]
           /\ Append(s, x)[Len(s) + 1] = x
    OBVIOUS

\* The transfers posted so far.
LEMMA OpFacts ==
    ASSUME TypeOK
    PROVE  /\ Len(ops) \in Nat /\ DOMAIN ops = 1 .. Len(ops) /\ DOMAIN ops \subseteq Op
           /\ \A o \in DOMAIN ops : ops[o].ep \in Ep /\ ops[o].id \in Id \cup {0} /\ ops[o].id \in Nat
<1> DEFINE R == [ep : Ep, id : Id \cup {0}]
<1>1. ops \in Seq(R) /\ Len(ops) <= MaxOps
    BY DEF TypeOK
<1> HIDE DEF R
<1>2. \A o \in DOMAIN ops : ops[o] \in R
    BY <1>1
<1>3. Len(ops) \in Nat /\ DOMAIN ops = 1 .. Len(ops)
    BY <1>1
<1> QED
    BY <1>1, <1>2, <1>3, UcxMaxOpsAssumption DEF R, Id, Op

\* A new transfer takes the next number and leaves the others as they are.
LEMMA PostFacts ==
    ASSUME TypeOK, NEW e \in Ep, NEW id \in Id \cup {0}, NEW st \in {"busy", "ok", "err"},
           Post(e, id, st)
    PROVE  /\ ops' \in Seq([ep : Ep, id : Id \cup {0}])
           /\ status' \in Seq({"busy", "ok", "err"})
           /\ Len(ops) \in Nat
           /\ Len(ops') = Len(ops) + 1 /\ Len(status') = Len(ops') /\ Len(ops') <= MaxOps
           /\ DOMAIN ops' = DOMAIN ops \cup {Len(ops) + 1}
           /\ Len(ops) + 1 \notin DOMAIN ops
           /\ Len(ops) + 1 \in Op
           /\ \A i \in DOMAIN ops : ops'[i] = ops[i]
           /\ ops'[Len(ops) + 1].ep = e
           /\ ops'[Len(ops) + 1].id = id
<1> USE UcxMaxOpsAssumption
<1> DEFINE r == [ep |-> e, id |-> id]
<1>1. r \in [ep : Ep, id : Id \cup {0}] /\ r.ep = e /\ r.id = id
    OBVIOUS
<1>2. Len(ops) < MaxOps /\ ops' = Append(ops, r) /\ status' = Append(status, st)
    BY DEF Post
<1>3. ops \in Seq([ep : Ep, id : Id \cup {0}]) /\ status \in Seq({"busy", "ok", "err"})
      /\ Len(status) = Len(ops)
    BY DEF TypeOK
<1> HIDE DEF r
<1>4. /\ ops' \in Seq([ep : Ep, id : Id \cup {0}])
      /\ Len(ops') = Len(ops) + 1 /\ Len(ops) \in Nat
      /\ DOMAIN ops = 1 .. Len(ops) /\ DOMAIN ops' = 1 .. Len(ops) + 1
      /\ \A i \in 1 .. Len(ops) : ops'[i] = ops[i]
      /\ ops'[Len(ops) + 1] = r
    BY <1>1, <1>2, <1>3, AppendFacts
<1>5. status' \in Seq({"busy", "ok", "err"}) /\ Len(status') = Len(status) + 1
    BY <1>2, <1>3, AppendFacts
<1>6. /\ DOMAIN ops' = DOMAIN ops \cup {Len(ops) + 1}
      /\ Len(ops) + 1 \notin DOMAIN ops
    BY <1>4
<1> QED
    BY <1>1, <1>2, <1>3, <1>4, <1>5, <1>6 DEF Op

\* Transfers done at once have no id; the others have the endpoint's next one.
LEMMA PostIds ==
    ASSUME TypeOK, Ids, NEW e \in Ep, NEW id \in Id \cup {0}, NEW st \in {"busy", "ok", "err"},
           Post(e, id, st),
           \/ id = 0 /\ UNCHANGED <<nextWrid, inflight>>
           \/ /\ id = NewId(e)
              /\ nextWrid' = [nextWrid EXCEPT ![e] = @ + 1]
              /\ inflight' = [inflight EXCEPT ![e] = @ \cup {Len(ops) + 1}]
    PROVE  Ids'
<1> USE UcxMaxOpsAssumption
<1> DEFINE o == Len(ops) + 1
<1>a. Post(e, id, st)
    OBVIOUS
<1>b. Len(ops) \in Nat /\ Len(ops') = Len(ops) + 1
    BY <1>a, PostFacts
<1>c. nextWrid \in [Ep -> Nat] /\ inflight \in [Ep -> SUBSET Op]
    BY DEF TypeOK
<1>0. /\ nextWrid \in [Ep -> Nat] /\ inflight \in [Ep -> SUBSET Op]
      /\ Len(ops) \in Nat /\ Len(ops') = Len(ops) + 1
      /\ \A i \in DOMAIN ops : ops[i].ep \in Ep /\ ops[i].id \in Nat
    BY <1>b, <1>c, OpFacts
<1>1. /\ DOMAIN ops' = DOMAIN ops \cup {o} /\ o \notin DOMAIN ops
      /\ \A i \in DOMAIN ops : ops'[i] = ops[i]
      /\ ops'[o].ep = e /\ ops'[o].id = id
    <2>1. /\ DOMAIN ops' = DOMAIN ops \cup {Len(ops) + 1} /\ Len(ops) + 1 \notin DOMAIN ops
          /\ \A i \in DOMAIN ops : ops'[i] = ops[i]
        BY ZenonT(30), <1>a, PostFacts
    <2>2. ops'[Len(ops) + 1].ep = e
        BY <1>a, PostFacts
    <2>3. ops'[Len(ops) + 1].id = id
        BY <1>a, PostFacts
    <2> QED
        BY <2>1, <2>2, <2>3
<1>2. nextWrid' \in [Ep -> Nat] /\ \A f \in Ep : nextWrid[f] <= nextWrid'[f]
    BY <1>0
<1>3. \A f \in Ep : nextWrid'[f] <= Len(ops')
    BY <1>0 DEF Ids
<1> HIDE DEF o
<1>4. \A f \in Ep : \A i \in inflight'[f] :
          i \in DOMAIN ops' /\ ops'[i].ep = f /\ ops'[i].id # 0
    BY <1>0, <1>1 DEF Ids, NewId, o
<1>5. \A i \in DOMAIN ops' : ops'[i].id <= nextWrid'[ops'[i].ep] + 1
    BY SMTT(30), <1>0, <1>1, <1>2 DEF Ids, NewId
<1>6. \A i, p \in DOMAIN ops' :
          ops'[i].ep = ops'[p].ep /\ ops'[i].id = ops'[p].id /\ ops'[i].id # 0 => i = p
    <2>1. ASSUME NEW i \in DOMAIN ops
          PROVE  ~(ops[i].ep = e /\ ops[i].id = id /\ id # 0)
        BY <1>0 DEF Ids, NewId
    <2>2. \A i, p \in DOMAIN ops : ops[i].ep = ops[p].ep /\ ops[i].id = ops[p].id /\ ops[i].id # 0
                                      => i = p
        BY DEF Ids
    <2> QED
        BY <1>1, <2>1, <2>2
<1> QED
    BY <1>3, <1>4, <1>5, <1>6 DEF Ids

LEMMA InitIInv == Init => IInv
<1> SUFFICES ASSUME Init PROVE IInv
    OBVIOUS
<1>1. DOMAIN ops = {} /\ Len(ops) = 0 /\ Len(status) = 0
      /\ ops \in Seq([ep : Ep, id : Id \cup {0}]) /\ status \in Seq({"busy", "ok", "err"})
    BY DEF Init
<1>2. TypeOK
    BY <1>1, UcxMaxOpsAssumption DEF Init, TypeOK, Idle, Frame
<1> QED
    BY <1>1, <1>2 DEF IInv, Init, Ids, Places, Sole, Idle

----------------------------------------------------------------------------
(***************************************************************************)
(* Transfers                                                               *)
(***************************************************************************)
LEMMA PutInv ==
    ASSUME IInv, NEW t \in Thread, NEW e \in Ep, Put(t, e)
    PROVE  IInv'
<1> DEFINE o == Len(ops) + 1
<1> USE UcxMaxOpsAssumption
<1>0. /\ TypeOK /\ Ids /\ Places /\ Sole
      /\ thread[t].held = {}
      /\ UNCHANGED <<usage, nextWrid, inflight, inflightEp, table, live, handles, abandoned>>
      /\ Post(e, 0, "busy") \/ Post(e, 0, "ok")
    BY DEF IInv, Put, Idle
<1>1. Ids'
    BY <1>0, PostIds
<1>2. /\ DOMAIN ops' = DOMAIN ops \cup {o} /\ o \notin DOMAIN ops /\ o \in Op
      /\ ops' \in Seq([ep : Ep, id : Id \cup {0}]) /\ Len(ops') <= MaxOps
      /\ status' \in Seq({"busy", "ok", "err"}) /\ Len(status') = Len(ops')
    BY <1>0, PostFacts
<1>3. /\ \A f \in Ep : o \notin inflight[f]
      /\ \A u \in Thread : o \notin thread[u].held
      /\ o \notin freed /\ o \notin abandoned
    BY <1>0, <1>2 DEF Ids, Places, TypeOK
<1> HIDE DEF o
<1>4. CASE /\ entry' = [entry EXCEPT ![e] = t]
           /\ Enter(t, "drive", e, {o}, {}, {o})
           /\ UNCHANGED <<freed, reported>>
    <2>0. /\ thread'[t] = [at |-> "drive", ep |-> e, asked |-> {o}, todo |-> {}, held |-> {o}]
          /\ \A u \in Thread : u # t => thread'[u] = thread[u]
          /\ thread' \in [Thread -> Frame]
        BY <1>0, <1>2, <1>4 DEF Enter, TypeOK, Frame
    <2>1. TypeOK'
        BY <1>0, <1>1, <1>2, <1>4, <2>0 DEF TypeOK, Ids
    <2>2. Places'
        BY SMTT(30), <1>0, <1>2, <2>0 DEF Places
    <2>3. Sole'
        <3>1. /\ thread'[t].held = {o}
              /\ \A u \in Thread : u # t => thread'[u].held = thread[u].held
            BY <2>0
        <3>2. \A u, v \in Thread : \A x \in thread'[u].held : x \in thread'[v].held => u = v
            BY <1>0, <1>3, <3>1 DEF Sole
        <3>3. \A x \in DOMAIN ops' :
                  \/ x \in freed \/ x \in abandoned
                  \/ \E u \in Thread : x \in thread'[u].held
                  \/ \E f \in Ep : x \in inflight[f]
            BY <1>0, <1>2, <3>1 DEF Sole
        <3>4. \A u \in Thread : \A x \in thread'[u].held :
                  x \notin freed /\ x \notin abandoned /\ \A f \in Ep : x \notin inflight[f]
            BY <1>0, <1>3, <3>1 DEF Sole
        <3> QED
            BY <1>0, <1>4, <3>2, <3>3, <3>4 DEF Sole
    <2> QED
        BY <1>1, <2>1, <2>2, <2>3 DEF IInv
<1>5. CASE /\ freed' = freed \cup {o}
           /\ reported' = reported \cup {o}
           /\ UNCHANGED <<entry, thread>>
    <2>1. TypeOK'
        BY <1>0, <1>1, <1>2, <1>5 DEF TypeOK, Ids
    <2>2. Places'
        BY <1>0, <1>2, <1>5 DEF Places
    <2>3. Sole'
        BY <1>0, <1>2, <1>3, <1>5 DEF Sole
    <2> QED
        BY <1>1, <2>1, <2>2, <2>3 DEF IInv
<1> QED
    BY <1>4, <1>5 DEF Put, o

LEMMA PutNBInv ==
    ASSUME IInv, NEW t \in Thread, NEW e \in Ep, PutNB(t, e)
    PROVE  IInv'
<1> DEFINE o == Len(ops) + 1
<1> USE UcxMaxOpsAssumption
<1>0. /\ TypeOK /\ Ids /\ Places /\ Sole
      /\ thread[t].held = {}
      /\ UNCHANGED <<usage, inflightEp, table, live, abandoned, reported>>
    BY DEF IInv, PutNB, Idle
<1>1. CASE /\ Post(e, NewId(e), "busy")
           /\ nextWrid' = [nextWrid EXCEPT ![e] = @ + 1]
           /\ inflight' = [inflight EXCEPT ![e] = @ \cup {o}]
           /\ entry' = [entry EXCEPT ![e] = t]
           /\ Enter(t, "record", e, {o}, {}, {})
           /\ UNCHANGED <<freed, handles>>
    <2>1. NewId(e) \in Id \cup {0}
        <3>1. Len(ops) < MaxOps /\ Len(ops) \in Nat /\ nextWrid[e] <= Len(ops) /\ nextWrid[e] \in Nat
            BY <1>0, <1>1, OpFacts DEF Post, Ids, TypeOK
        <3> QED
            BY <3>1 DEF NewId, Id
    <2>2. Ids'
        BY <1>0, <1>1, <2>1, PostIds
    <2>3. /\ DOMAIN ops' = DOMAIN ops \cup {o} /\ o \notin DOMAIN ops /\ o \in Op
          /\ ops' \in Seq([ep : Ep, id : Id \cup {0}]) /\ Len(ops') <= MaxOps
          /\ status' \in Seq({"busy", "ok", "err"}) /\ Len(status') = Len(ops')
        BY <1>0, <1>1, <2>1, PostFacts
    <2>a. Len(ops') \in Nat
        BY <2>3
    <2>4. /\ \A f \in Ep : o \notin inflight[f]
          /\ \A u \in Thread : o \notin thread[u].held
          /\ o \notin freed /\ o \notin abandoned
        BY <1>0, <2>3 DEF Ids, Places, TypeOK
    <2> HIDE DEF o
    <2>5. /\ thread'[t] = [at |-> "record", ep |-> e, asked |-> {o}, todo |-> {}, held |-> {}]
          /\ \A u \in Thread : u # t => thread'[u] = thread[u]
          /\ thread' \in [Thread -> Frame]
        BY <1>0, <1>1, <2>3 DEF Enter, TypeOK, Frame
    <2>6. TypeOK'
        <3>1. nextWrid' \in [Ep -> 0 .. MaxOps]
            <4>1. nextWrid \in [Ep -> Nat] /\ \A f \in Ep : nextWrid'[f] <= MaxOps
                BY <1>0, <2>2, <2>3, <2>a, <1>1 DEF TypeOK, Ids
            <4> QED
                BY <1>1, <4>1
        <3>2. inflight' \in [Ep -> SUBSET Op]
            BY <1>0, <1>1, <2>3 DEF TypeOK
        <3> QED
            BY <1>0, <1>1, <2>3, <2>5, <3>1, <3>2 DEF TypeOK
    <2>7. Places'
        <3>1. thread'[t].held = {} /\ thread'[t].asked = {o} /\ thread'[t].at = "record"
            BY <2>5
        <3>2. table' = table
            BY <1>0
        <3> QED
            BY <1>0, <2>3, <2>5, <3>1, <3>2 DEF Places
    <2>8. Sole'
        <3>1. \A u \in Thread : thread'[u].held = thread[u].held
            BY SMTT(30), <1>0, <2>5
        <3>2. /\ inflight'[e] = inflight[e] \cup {o}
              /\ \A f \in Ep : f # e => inflight'[f] = inflight[f]
            BY <1>0, <1>1 DEF TypeOK
        <3>3. \A x \in DOMAIN ops' :
                  \/ x \in freed \/ x \in abandoned
                  \/ \E u \in Thread : x \in thread'[u].held
                  \/ \E f \in Ep : x \in inflight'[f]
            BY <1>0, <2>3, <3>1, <3>2 DEF Sole
        <3>4. \A u \in Thread : \A x \in thread'[u].held :
                  x \notin freed /\ x \notin abandoned /\ \A f \in Ep : x \notin inflight'[f]
            BY <1>0, <2>4, <3>1, <3>2 DEF Sole
        <3>5. \A f \in Ep : \A x \in inflight'[f] : x \notin freed /\ x \notin abandoned
            BY <1>0, <2>4, <3>2 DEF Sole
        <3> QED
            BY <1>0, <1>1, <3>1, <3>3, <3>4, <3>5 DEF Sole
    <2> QED
        BY <2>2, <2>6, <2>7, <2>8 DEF IInv
<1>2. CASE /\ Post(e, 0, "ok")
           /\ freed' = freed \cup {o}
           /\ handles' = handles \cup {o}
           /\ UNCHANGED <<nextWrid, inflight, entry, thread>>
    <2>1. Ids'
        BY <1>0, <1>2, PostIds
    <2>2. /\ DOMAIN ops' = DOMAIN ops \cup {o} /\ o \notin DOMAIN ops /\ o \in Op
          /\ ops' \in Seq([ep : Ep, id : Id \cup {0}]) /\ Len(ops') <= MaxOps
          /\ status' \in Seq({"busy", "ok", "err"}) /\ Len(status') = Len(ops')
        BY <1>0, <1>2, PostFacts
    <2>3. /\ \A f \in Ep : o \notin inflight[f]
          /\ \A u \in Thread : o \notin thread[u].held
          /\ o \notin abandoned
        BY <1>0, <2>2 DEF Ids, Places, TypeOK
    <2> HIDE DEF o
    <2>4. TypeOK'
        BY <1>0, <1>2, <2>1, <2>2 DEF TypeOK, Ids
    <2>5. Places'
        BY <1>0, <1>2, <2>2 DEF Places
    <2>6. Sole'
        BY <1>0, <1>2, <2>2, <2>3 DEF Sole
    <2> QED
        BY <2>1, <2>4, <2>5, <2>6 DEF IInv
<1> QED
    BY <1>1, <1>2 DEF PutNB

----------------------------------------------------------------------------
(***************************************************************************)
(* Steps that leave the transfers as they are                              *)
(***************************************************************************)
\* The ids are untouched as long as requests only leave the tables.
LEMMA IdsKept ==
    ASSUME Ids, UNCHANGED <<ops, nextWrid>>, \A e \in Ep : inflight'[e] \subseteq inflight[e]
    PROVE  Ids'
BY DEF Ids

\* A thread goes on to another place.
LEMMA Entering ==
    ASSUME TypeOK, Places, UNCHANGED ops, table' \subseteq table,
           NEW t \in Thread, NEW f \in Frame, thread' = [thread EXCEPT ![t] = f],
           f.held \subseteq DOMAIN ops, f.asked \subseteq DOMAIN ops,
           f.at \notin {"drive", "driveAll"} => f.held = {},
           f.at = "drive" => \E o \in DOMAIN ops : f.held = {o},
           f.at = "close" => f.ep \notin table'
    PROVE  /\ thread' \in [Thread -> Frame]
           /\ thread'[t] = f
           /\ \A u \in Thread : u # t => thread'[u] = thread[u]
           /\ Places'
<1>1. /\ thread' \in [Thread -> Frame]
      /\ thread'[t] = f
      /\ \A u \in Thread : u # t => thread'[u] = thread[u]
    BY DEF TypeOK
<1>2. Places'
    BY <1>1 DEF Places
<1> QED
    BY <1>1, <1>2

LEMMA IdleFrame == Idle \in Frame
BY DEF Idle, Frame

\* Requests stay where they are.
LEMMA SoleKept ==
    ASSUME Sole, UNCHANGED <<ops, inflight, freed, abandoned>>,
           \A u \in Thread : thread'[u].held = thread[u].held
    PROVE  Sole'
BY DEF Sole

LEMMA RecordInv ==
    ASSUME IInv, NEW t \in Thread, Record(t)
    PROVE  IInv'
<1>0. /\ TypeOK /\ Ids /\ Places /\ Sole /\ thread[t].held = {}
      /\ thread[t].asked \subseteq DOMAIN ops
      /\ UNCHANGED <<usage, ops, status, freed, nextWrid, inflight, table, live, abandoned, reported>>
    BY DEF IInv, Record, Fail, Places
<1>1. /\ thread' = [thread EXCEPT ![t] = Idle]
      /\ thread' \in [Thread -> Frame] /\ thread'[t] = Idle
      /\ \A u \in Thread : u # t => thread'[u] = thread[u]
      /\ Places'
    BY <1>0, IdleFrame, Entering DEF Record, Fail, Idle
<1>2. TypeOK'
    <2>1. thread[t].ep \in Ep \cup {None}
        BY <1>0 DEF TypeOK, Frame
    <2>2. inflightEp' \in [Id -> Ep \cup {None}]
        BY <1>0, <2>1 DEF Record, TypeOK
    <2>3. entry' \in [Ep -> Thread \cup {None}]
        BY <1>0 DEF Record, TypeOK
    <2> QED
        BY <1>0, <1>1, <2>2, <2>3 DEF TypeOK, Record
<1>3. Ids' /\ Sole'
    BY <1>0, <1>1, IdsKept, SoleKept DEF Idle
<1> QED
    BY <1>1, <1>2, <1>3 DEF IInv

LEMMA WaitInv ==
    ASSUME IInv, NEW t \in Thread, NEW o \in handles, Wait(t, o)
    PROVE  IInv'
<1>0. /\ TypeOK /\ Ids /\ Places /\ Sole
      /\ thread[t] = Idle /\ thread[t].held = {} /\ o \in DOMAIN ops /\ handles' \subseteq handles
      /\ UNCHANGED <<usage, ops, status, freed, nextWrid, inflight, entry, table, live, abandoned>>
    BY DEF IInv, Wait, Idle, TypeOK
<1>1. Ids'
    BY <1>0, IdsKept
<1>2. CASE ops[o].id = 0 /\ reported' = reported \cup {o} /\ UNCHANGED <<inflightEp, thread>>
    BY <1>0, <1>1, <1>2, SoleKept DEF IInv, TypeOK, Places
<1>3. CASE UNCHANGED <<inflightEp, thread, reported>>
    BY <1>0, <1>1, <1>3, SoleKept DEF IInv, TypeOK, Places
<1>4. CASE /\ ops[o].id # 0 /\ inflightEp[ops[o].id] # None
           /\ inflightEp' = Forget({ops[o].id})
           /\ Enter(t, "take", inflightEp[ops[o].id], {o}, {<<inflightEp[ops[o].id], ops[o].id>>}, {})
           /\ UNCHANGED reported
    <2> DEFINE e == inflightEp[ops[o].id]
               f == [at |-> "take", ep |-> e, asked |-> {o}, todo |-> {<<e, ops[o].id>>}, held |-> {}]
    <2>1. ops[o].id \in Id /\ e \in Ep /\ o \in Op
        BY <1>0, <1>4, OpFacts DEF TypeOK
    <2>2. f \in Frame
        BY <2>1 DEF Frame
    <2>3. thread' = [thread EXCEPT ![t] = f]
        BY <1>4 DEF Enter
    <2>4. /\ f.held = {} /\ f.asked = {o} /\ f.at = "take"
        OBVIOUS
    <2> HIDE DEF f, e
    <2>5. /\ thread' \in [Thread -> Frame] /\ thread'[t] = f
          /\ \A u \in Thread : u # t => thread'[u] = thread[u]
          /\ Places'
        BY <1>0, <2>2, <2>3, <2>4, Entering
    <2>6. inflightEp' \in [Id -> Ep \cup {None}]
        BY <1>0, <1>4 DEF Forget, TypeOK
    <2>7. TypeOK'
        BY <1>0, <1>4, <2>5, <2>6 DEF TypeOK
    <2>8. Sole'
        BY <1>0, <2>4, <2>5, SoleKept
    <2> QED
        BY <1>1, <2>5, <2>7, <2>8 DEF IInv
<1> QED
    BY <1>2, <1>3, <1>4 DEF Wait

LEMMA WaitListInv ==
    ASSUME IInv, NEW t \in Thread, NEW os \in SUBSET handles, WaitList(t, os)
    PROVE  IInv'
<1> DEFINE ids == IdsOf(os)
           todo == {<<inflightEp[id], id>> : id \in ids}
           f == [at |-> "takeAll", ep |-> None, asked |-> os, todo |-> todo, held |-> {}]
<1>0. /\ TypeOK /\ Ids /\ Places /\ Sole
      /\ thread[t] = Idle /\ thread[t].held = {} /\ os \subseteq DOMAIN ops
      /\ handles' \subseteq handles
      /\ UNCHANGED <<usage, ops, status, freed, nextWrid, inflight, entry, table, live,
                     abandoned, reported>>
    BY DEF IInv, WaitList, Idle, TypeOK
<1>1. Ids'
    BY <1>0, IdsKept
<1>2. ids \subseteq Id
    BY <1>0, OpFacts DEF IdsOf
<1>3. \A s : Forget(s) \in [Id -> Ep \cup {None}]
    BY <1>0 DEF Forget, TypeOK
<1> HIDE DEF ids
<1>4. CASE /\ {id \in ids : inflightEp[id] = None} = {}
           /\ inflightEp' = Forget(ids)
           /\ Enter(t, "takeAll", None, os, todo, {})
    <2>1. todo \subseteq Ep \X Id
        BY <1>0, <1>2, <1>4 DEF TypeOK
    <2>2. f \in Frame
        BY <1>0, <2>1, OpFacts DEF Frame
    <2>3. thread' = [thread EXCEPT ![t] = f]
        BY <1>4 DEF Enter
    <2>4. /\ f.held = {} /\ f.asked = os /\ f.at = "takeAll"
        OBVIOUS
    <2> HIDE DEF f
    <2>5. /\ thread' \in [Thread -> Frame] /\ thread'[t] = f
          /\ \A u \in Thread : u # t => thread'[u] = thread[u]
          /\ Places'
        BY <1>0, <2>2, <2>3, <2>4, Entering
    <2>6. TypeOK'
        BY <1>0, <1>3, <1>4, <2>5 DEF TypeOK
    <2>7. Sole'
        BY <1>0, <2>4, <2>5, SoleKept
    <2> QED
        BY <1>1, <2>5, <2>6, <2>7 DEF IInv
<1>5. CASE /\ \E before \in SUBSET (ids \ {id \in ids : inflightEp[id] = None}) :
                  inflightEp' = Forget(before)
           /\ UNCHANGED thread
    <2>1. inflightEp' \in [Id -> Ep \cup {None}]
        BY <1>3, <1>5
    <2> QED
        BY <1>0, <1>1, <1>5, <2>1, SoleKept DEF IInv, TypeOK, Places
<1> QED
    BY <1>4, <1>5 DEF WaitList, ids

----------------------------------------------------------------------------
(***************************************************************************)
(* Waits                                                                   *)
(***************************************************************************)
\* Requests move from the table of an endpoint into the hands of a thread that
\* had none, or into nobody's.
LEMMA TakingOut ==
    ASSUME TypeOK, Ids, Sole, UNCHANGED <<ops, freed, nextWrid>>, NEW t \in Thread, NEW e \in Ep,
           NEW os \in SUBSET inflight[e], inflight' = Unfile(e, os), thread[t].held = {},
           \A u \in Thread : u # t => thread'[u].held = thread[u].held,
           \/ thread'[t].held = os /\ abandoned' = abandoned
           \/ thread'[t].held = {} /\ abandoned' = abandoned \cup os
    PROVE  Sole' /\ Ids' /\ inflight' \in [Ep -> SUBSET Op]
<1>1. /\ inflight'[e] = inflight[e] \ os
      /\ \A d \in Ep : d # e => inflight'[d] = inflight[d]
      /\ inflight' \in [Ep -> SUBSET Op]
    BY DEF Unfile, TypeOK
<1>2. \A d \in Ep : d # e => \A o \in os : o \notin inflight[d]
    BY DEF Ids
<1>3. \A o \in os : o \notin freed /\ o \notin abandoned /\ \A u \in Thread : o \notin thread[u].held
    BY DEF Sole
<1>4. \A u, v \in Thread : \A o \in thread'[u].held : o \in thread'[v].held => u = v
    BY <1>3 DEF Sole
<1>5. \A u \in Thread : \A o \in thread'[u].held :
          o \notin freed' /\ o \notin abandoned' /\ \A d \in Ep : o \notin inflight'[d]
    BY <1>1, <1>2, <1>3 DEF Sole
<1>6. \A d \in Ep : \A o \in inflight'[d] : o \notin freed' /\ o \notin abandoned'
    BY <1>1, <1>2 DEF Sole
<1>7. \A o \in freed' : o \notin abandoned'
    BY <1>3 DEF Sole
<1>8. \A o \in DOMAIN ops' :
          \/ o \in freed' \/ o \in abandoned'
          \/ \E u \in Thread : o \in thread'[u].held
          \/ \E d \in Ep : o \in inflight'[d]
    <2> SUFFICES ASSUME NEW o \in DOMAIN ops, o \notin freed, o \notin abandoned'
                 PROVE  \/ \E u \in Thread : o \in thread'[u].held
                        \/ \E d \in Ep : o \in inflight'[d]
        OBVIOUS
    <2>1. CASE o \in os
        BY <2>1
    <2>2. CASE \E u \in Thread : o \in thread[u].held
        BY <2>2
    <2>3. CASE o \notin os /\ \E d \in Ep : o \in inflight[d]
        BY <1>1, <2>3
    <2> QED
        BY <2>1, <2>2, <2>3 DEF Sole
<1>9. Ids'
    <2>1. \A d \in Ep : inflight'[d] \subseteq inflight[d]
        BY <1>1
    <2> QED
        BY <2>1, IdsKept
<1> QED
    BY <1>1, <1>4, <1>5, <1>6, <1>7, <1>8, <1>9 DEF Sole

\* A thread gives requests back to UCX or gives up on them.
LEMMA LettingGo ==
    ASSUME Sole, UNCHANGED <<ops, inflight>>, NEW t \in Thread, NEW os \in SUBSET thread[t].held,
           \A u \in Thread : u # t => thread'[u].held = thread[u].held,
           thread'[t].held = thread[t].held \ os,
           \/ freed' = freed \cup os /\ abandoned' = abandoned
           \/ freed' = freed /\ abandoned' = abandoned \cup os
    PROVE  Sole'
<1>1. \A u, v \in Thread : \A o \in thread'[u].held : o \in thread'[v].held => u = v
    BY DEF Sole
<1>2. \A u \in Thread : \A o \in thread'[u].held :
          o \notin freed' /\ o \notin abandoned' /\ \A e \in Ep : o \notin inflight'[e]
    BY DEF Sole
<1>3. \A e \in Ep : \A o \in inflight'[e] : o \notin freed' /\ o \notin abandoned'
    BY DEF Sole
<1>4. \A o \in freed' : o \notin abandoned'
    BY DEF Sole
<1>5. \A o \in DOMAIN ops' :
          \/ o \in freed' \/ o \in abandoned'
          \/ \E u \in Thread : o \in thread'[u].held
          \/ \E e \in Ep : o \in inflight'[e]
    BY DEF Sole
<1> QED
    BY <1>1, <1>2, <1>3, <1>4, <1>5 DEF Sole

\* Two requests of an endpoint have two ids.
LEMMA OneFiled ==
    ASSUME Ids, NEW e \in Ep, NEW id, Filed(e, {id}) # {}
    PROVE  \E o \in DOMAIN ops : Filed(e, {id}) = {o}
<1>1. PICK o \in inflight[e] : ops[o].id = id
    BY DEF Filed
<1>2. ASSUME NEW p \in inflight[e], ops[p].id = id
      PROVE  p = o
    BY <1>1, <1>2 DEF Ids
<1> QED
    BY <1>1, <1>2 DEF Filed, Ids

LEMMA TakeInv ==
    ASSUME IInv, NEW t \in Thread, Take(t)
    PROVE  IInv'
<1>0. /\ TypeOK /\ Ids /\ Places /\ Sole
      /\ thread[t].at = "take" /\ thread[t].held = {} /\ thread[t].asked \subseteq DOMAIN ops
      /\ UNCHANGED <<usage, ops, status, freed, nextWrid, inflightEp, entry, table, live,
                     handles, abandoned>>
    BY DEF IInv, Take, Places
<1>1. PICK p \in thread[t].todo :
          /\ inflight' = Unfile(p[1], Filed(p[1], {p[2]}))
          /\ IF Filed(p[1], {p[2]}) = {}
             THEN Fail(t)
             ELSE /\ Enter(t, "drive", p[1], thread[t].asked, {}, Filed(p[1], {p[2]}))
                  /\ UNCHANGED reported
    BY DEF Take
<1> DEFINE e == p[1]
           found == Filed(e, {p[2]})
           f == [at |-> "drive", ep |-> e, asked |-> thread[t].asked, todo |-> {}, held |-> found]
<1>2. e \in Ep /\ thread[t].asked \in SUBSET Op
    BY <1>0 DEF TypeOK, Frame
<1>3. found \subseteq inflight[e] /\ found \subseteq DOMAIN ops /\ found \subseteq Op
    BY <1>0, <1>2 DEF Filed, Ids, TypeOK
<1>4. CASE found = {}
    <2>1. thread' = [thread EXCEPT ![t] = Idle] /\ reported' = reported
        BY <1>1, <1>4 DEF Fail
    <2>2. /\ thread' \in [Thread -> Frame] /\ thread'[t] = Idle
          /\ \A u \in Thread : u # t => thread'[u] = thread[u]
          /\ Places'
        BY <1>0, <2>1, IdleFrame, Entering DEF Idle
    <2>3. inflight' = Unfile(e, found)
        BY <1>1
    <2> HIDE DEF found, e
    <2>4. thread'[t].held = found /\ \A u \in Thread : u # t => thread'[u].held = thread[u].held
        BY <1>4, <2>2 DEF Idle
    <2>5. Sole' /\ Ids' /\ inflight' \in [Ep -> SUBSET Op]
        BY <1>0, <1>2, <1>3, <2>3, <2>4, TakingOut
    <2>6. TypeOK'
        BY <1>0, <2>1, <2>2, <2>5 DEF TypeOK
    <2> QED
        BY <2>2, <2>5, <2>6 DEF IInv
<1>5. CASE found # {}
    <2>1. thread' = [thread EXCEPT ![t] = f] /\ reported' = reported
        BY <1>1, <1>5 DEF Enter
    <2>2. \E o \in DOMAIN ops : found = {o}
        BY <1>0, <1>2, <1>5, OneFiled
    <2> HIDE DEF found, e
    <2>3. /\ f \in Frame
          /\ f.held = found /\ f.asked = thread[t].asked /\ f.at = "drive"
        BY <1>2, <1>3 DEF Frame
    <2> HIDE DEF f
    <2>4. /\ thread' \in [Thread -> Frame] /\ thread'[t] = f
          /\ \A u \in Thread : u # t => thread'[u] = thread[u]
          /\ Places'
        BY <1>0, <1>3, <2>1, <2>2, <2>3, Entering
    <2>5. inflight' = Unfile(e, found)
        BY <1>1 DEF e, found
    <2>6. Sole' /\ Ids' /\ inflight' \in [Ep -> SUBSET Op]
        BY <1>0, <1>2, <1>3, <2>3, <2>4, <2>5, TakingOut
    <2>7. TypeOK'
        BY <1>0, <2>1, <2>4, <2>6 DEF TypeOK
    <2> QED
        BY <2>4, <2>6, <2>7 DEF IInv
<1> QED
    BY <1>4, <1>5

LEMMA DriveInv ==
    ASSUME IInv, NEW t \in Thread, Drive(t)
    PROVE  IInv'
<1>0. /\ TypeOK /\ Ids /\ Places /\ Sole
      /\ thread[t].at = "drive" /\ thread[t].asked \subseteq DOMAIN ops
      /\ UNCHANGED <<usage, ops, status, nextWrid, inflight, inflightEp, table, live, handles,
                     abandoned>>
    BY DEF IInv, Drive, Places
<1>1. PICK o \in thread[t].held :
          freed' = freed \cup {o} /\ IF Good(o) THEN Succeed(t) ELSE Fail(t)
    BY DEF Drive
<1>2. thread[t].held = {o} /\ o \in DOMAIN ops
    BY <1>0, <1>1 DEF Places
<1>3. thread' = [thread EXCEPT ![t] = Idle] /\ reported' \subseteq reported \cup thread[t].asked
    BY <1>1 DEF Succeed, Fail
<1>4. /\ thread' \in [Thread -> Frame] /\ thread'[t] = Idle
      /\ \A u \in Thread : u # t => thread'[u] = thread[u]
      /\ Places'
    BY <1>0, <1>3, IdleFrame, Entering DEF Idle
<1>5. /\ thread'[t].held = thread[t].held \ {o}
      /\ \A u \in Thread : u # t => thread'[u].held = thread[u].held
    BY <1>2, <1>4 DEF Idle
<1>6. Sole'
    <2>1. {o} \in SUBSET thread[t].held
        BY <1>1
    <2> QED
        BY <1>0, <1>1, <1>5, <2>1, LettingGo
<1>7. Ids'
    BY <1>0, IdsKept
<1>8. entry' \in [Ep -> Thread \cup {None}]
    BY <1>0 DEF Drive, TypeOK
<1>9. TypeOK'
    BY <1>0, <1>1, <1>2, <1>3, <1>4, <1>8 DEF TypeOK
<1> QED
    BY <1>4, <1>6, <1>7, <1>9 DEF IInv

LEMMA TakeAllInv ==
    ASSUME IInv, NEW t \in Thread, TakeAll(t)
    PROVE  IInv'
<1>0. /\ TypeOK /\ Ids /\ Places /\ Sole
      /\ thread[t].at = "takeAll" /\ thread[t].held = {} /\ thread[t].asked \subseteq DOMAIN ops
      /\ thread[t].todo \subseteq Ep \X Id /\ thread[t].asked \in SUBSET Op
      /\ UNCHANGED <<usage, ops, status, freed, nextWrid, inflightEp, entry, table, live, handles>>
    BY DEF IInv, TakeAll, Places, TypeOK, Frame
<1>1. ASSUME thread' = [thread EXCEPT ![t] = Idle]
      PROVE  /\ thread' \in [Thread -> Frame] /\ thread'[t].held = {}
             /\ \A u \in Thread : u # t => thread'[u].held = thread[u].held
             /\ Places'
    <2>1. /\ thread' \in [Thread -> Frame] /\ thread'[t] = Idle
          /\ \A u \in Thread : u # t => thread'[u] = thread[u]
          /\ Places'
        BY <1>0, <1>1, IdleFrame, Entering DEF Idle
    <2> QED
        BY <2>1 DEF Idle
<1>2. CASE Succeed(t) /\ UNCHANGED <<inflight, abandoned>>
    <2>1. thread' = [thread EXCEPT ![t] = Idle] /\ reported' = reported \cup thread[t].asked
        BY <1>2 DEF Succeed
    <2>2. TypeOK'
        BY <1>0, <1>1, <1>2, <2>1 DEF TypeOK
    <2>3. Ids' /\ Sole'
        BY <1>0, <1>1, <1>2, <2>1, IdsKept, SoleKept
    <2> QED
        BY <1>1, <2>1, <2>2, <2>3 DEF IInv
<1>3. ASSUME NEW e \in Ep, NEW os \in SUBSET inflight[e],
             inflight' = Unfile(e, os), abandoned' = abandoned \cup os, Fail(t)
      PROVE  IInv'
    <2>1. thread' = [thread EXCEPT ![t] = Idle] /\ reported' = reported
        BY <1>3 DEF Fail
    <2>2. Sole' /\ Ids' /\ inflight' \in [Ep -> SUBSET Op]
        BY <1>0, <1>1, <1>3, <2>1, TakingOut
    <2>3. os \subseteq DOMAIN ops
        BY <1>0 DEF Ids
    <2>4. TypeOK'
        BY <1>0, <1>1, <1>3, <2>1, <2>2, <2>3 DEF TypeOK
    <2> QED
        BY <1>1, <2>1, <2>2, <2>4 DEF IInv
<1>4. ASSUME NEW e \in Ep, NEW os \in SUBSET inflight[e], NEW rest \in SUBSET (Ep \X Id),
             inflight' = Unfile(e, os), UNCHANGED <<abandoned, reported>>,
             Enter(t, "driveAll", e, thread[t].asked, rest, os)
      PROVE  IInv'
    <2> DEFINE f == [at |-> "driveAll", ep |-> e, asked |-> thread[t].asked, todo |-> rest,
                     held |-> os]
    <2>1. os \subseteq DOMAIN ops /\ os \in SUBSET Op
        BY <1>0, OpFacts DEF Ids
    <2>2. f \in Frame
        BY <1>0, <2>1 DEF Frame
    <2>3. thread' = [thread EXCEPT ![t] = f]
        BY <1>4 DEF Enter
    <2>4. f.held = os /\ f.asked = thread[t].asked /\ f.at = "driveAll"
        OBVIOUS
    <2> HIDE DEF f
    <2>5. /\ thread' \in [Thread -> Frame] /\ thread'[t] = f
          /\ \A u \in Thread : u # t => thread'[u] = thread[u]
          /\ Places'
        BY <1>0, <2>1, <2>2, <2>3, <2>4, Entering
    <2>6. thread'[t].held = os /\ \A u \in Thread : u # t => thread'[u].held = thread[u].held
        BY <2>4, <2>5
    <2>7. Sole' /\ Ids' /\ inflight' \in [Ep -> SUBSET Op]
        BY <1>0, <1>4, <2>6, TakingOut
    <2>8. TypeOK'
        BY <1>0, <1>4, <2>5, <2>7 DEF TypeOK
    <2> QED
        BY <2>5, <2>7, <2>8 DEF IInv
<1>5. CASE \E e \in {p[1] : p \in thread[t].todo} :
             LET here == {p \in thread[t].todo : p[1] = e}
                 found == Filed(e, {p[2] : p \in here})
             IN  IF Cardinality(found) < Cardinality(here)
                 THEN \E before \in SUBSET found :
                          /\ inflight' = Unfile(e, before)
                          /\ abandoned' = abandoned \cup before
                          /\ Fail(t)
                 ELSE /\ inflight' = Unfile(e, found)
                      /\ Enter(t, "driveAll", e, thread[t].asked, thread[t].todo \ here, found)
                      /\ UNCHANGED <<abandoned, reported>>
    <2>1. PICK e \in {p[1] : p \in thread[t].todo} :
             LET here == {p \in thread[t].todo : p[1] = e}
                 found == Filed(e, {p[2] : p \in here})
             IN  IF Cardinality(found) < Cardinality(here)
                 THEN \E before \in SUBSET found :
                          /\ inflight' = Unfile(e, before)
                          /\ abandoned' = abandoned \cup before
                          /\ Fail(t)
                 ELSE /\ inflight' = Unfile(e, found)
                      /\ Enter(t, "driveAll", e, thread[t].asked, thread[t].todo \ here, found)
                      /\ UNCHANGED <<abandoned, reported>>
        BY <1>5
    <2> DEFINE here == {p \in thread[t].todo : p[1] = e}
               found == Filed(e, {p[2] : p \in here})
               rest == thread[t].todo \ here
    <2>2. e \in Ep /\ rest \in SUBSET (Ep \X Id)
        BY <1>0
    <2>3. found \subseteq inflight[e]
        BY DEF Filed
    <2>4. \/ \E before \in SUBSET found :
                 /\ inflight' = Unfile(e, before)
                 /\ abandoned' = abandoned \cup before
                 /\ Fail(t)
          \/ /\ inflight' = Unfile(e, found)
             /\ Enter(t, "driveAll", e, thread[t].asked, rest, found)
             /\ UNCHANGED <<abandoned, reported>>
        BY <2>1
    <2> HIDE DEF here, found, rest
    <2>5. CASE \E before \in SUBSET found :
                 /\ inflight' = Unfile(e, before)
                 /\ abandoned' = abandoned \cup before
                 /\ Fail(t)
        BY <2>2, <2>3, <2>5, <1>3
    <2>6. CASE /\ inflight' = Unfile(e, found)
               /\ Enter(t, "driveAll", e, thread[t].asked, rest, found)
               /\ UNCHANGED <<abandoned, reported>>
        BY <2>2, <2>3, <2>6, <1>4
    <2> QED
        BY <2>4, <2>5, <2>6
<1> QED
    BY <1>2, <1>5 DEF TakeAll

LEMMA PollInv ==
    ASSUME IInv, NEW t \in Thread, Poll(t)
    PROVE  IInv'
<1> DEFINE ended == {o \in thread[t].held : status[o] # "busy"}
           g == IF thread[t].held = ended THEN "takeAll" ELSE thread[t].at
           f == [thread[t] EXCEPT !.held = @ \ ended, !.at = g]
<1>0. /\ TypeOK /\ Ids /\ Places /\ Sole
      /\ thread[t].at = "driveAll" /\ thread[t].held \subseteq DOMAIN ops
      /\ thread[t].asked \subseteq DOMAIN ops
      /\ thread[t] \in Frame
      /\ freed' = freed \cup ended
      /\ UNCHANGED <<usage, ops, status, nextWrid, inflight, inflightEp, entry, table, live,
                     handles, abandoned, reported>>
    BY DEF IInv, Poll, Places, TypeOK
<1>1. thread' = [thread EXCEPT ![t] = f]
    BY <1>0 DEF Poll, TypeOK
<1>2. ended \in SUBSET thread[t].held
    OBVIOUS
<1> HIDE DEF ended
<1>3. /\ f \in Frame
      /\ f.held = thread[t].held \ ended /\ f.asked = thread[t].asked
      /\ f.at = IF thread[t].held = ended THEN "takeAll" ELSE "driveAll"
    BY <1>0, <1>2 DEF Frame
<1> HIDE DEF f
<1>4. /\ thread' \in [Thread -> Frame] /\ thread'[t] = f
      /\ \A u \in Thread : u # t => thread'[u] = thread[u]
      /\ Places'
    <2>1. f.at \notin {"drive", "driveAll"} => f.held = {}
        BY <1>3
    <2> QED
        BY <1>0, <1>1, <1>3, <2>1, Entering
<1>5. Sole'
    <2>1. /\ thread'[t].held = thread[t].held \ ended
          /\ \A u \in Thread : u # t => thread'[u].held = thread[u].held
        BY <1>3, <1>4
    <2> QED
        BY <1>0, <1>2, <2>1, LettingGo
<1>6. Ids'
    BY <1>0, IdsKept
<1>7. TypeOK'
    BY <1>0, <1>2, <1>4 DEF TypeOK
<1> QED
    BY <1>4, <1>5, <1>6, <1>7 DEF IInv

LEMMA TimeoutInv ==
    ASSUME IInv, NEW t \in Thread, Timeout(t)
    PROVE  IInv'
<1>0. /\ TypeOK /\ Ids /\ Places /\ Sole
      /\ thread[t].held \subseteq DOMAIN ops /\ thread[t].asked \subseteq DOMAIN ops
      /\ thread' = [thread EXCEPT ![t] = Idle]
      /\ abandoned' = abandoned \cup thread[t].held
      /\ handles' \subseteq handles \cup thread[t].asked
      /\ UNCHANGED <<usage, ops, status, freed, nextWrid, inflight, inflightEp, entry, table, live,
                     reported>>
    BY DEF IInv, Timeout, Places, Fail
<1>1. /\ thread' \in [Thread -> Frame] /\ thread'[t] = Idle
      /\ \A u \in Thread : u # t => thread'[u] = thread[u]
      /\ Places'
    BY <1>0, IdleFrame, Entering DEF Idle
<1>2. Sole'
    <2>1. /\ thread'[t].held = thread[t].held \ thread[t].held
          /\ \A u \in Thread : u # t => thread'[u].held = thread[u].held
        BY <1>1 DEF Idle
    <2>2. thread[t].held \in SUBSET thread[t].held
        OBVIOUS
    <2> QED
        BY <1>0, <2>1, <2>2, LettingGo
<1>3. Ids'
    BY <1>0, IdsKept
<1>4. TypeOK'
    BY <1>0, <1>1 DEF TypeOK
<1> QED
    BY <1>1, <1>2, <1>3, <1>4 DEF IInv

----------------------------------------------------------------------------
(***************************************************************************)
(* disConnect, and the ends of requests                                    *)
(***************************************************************************)
LEMMA DisConnectInv ==
    ASSUME IInv, NEW t \in Thread, NEW e \in Ep, DisConnect(t, e)
    PROVE  IInv'
<1> DEFINE f == [at |-> "close", ep |-> e, asked |-> {}, todo |-> {}, held |-> {}]
<1>0. /\ TypeOK /\ Ids /\ Places /\ Sole
      /\ thread[t].held = {} /\ table' = table \ {e}
      /\ thread' = [thread EXCEPT ![t] = f]
      /\ UNCHANGED <<usage, ops, status, freed, nextWrid, inflight, inflightEp, entry, live,
                     handles, abandoned, reported>>
    BY DEF IInv, DisConnect, Enter, Idle
<1>1. f \in Frame /\ f.held = {} /\ f.asked = {} /\ f.at = "close" /\ f.ep = e
    BY DEF Frame
<1> HIDE DEF f
<1>2. /\ thread' \in [Thread -> Frame] /\ thread'[t] = f
      /\ \A u \in Thread : u # t => thread'[u] = thread[u]
      /\ Places'
    BY <1>0, <1>1, Entering
<1>3. Ids' /\ Sole'
    BY <1>0, <1>1, <1>2, IdsKept, SoleKept
<1>4. TypeOK'
    BY <1>0, <1>2 DEF TypeOK
<1> QED
    BY <1>2, <1>3, <1>4 DEF IInv

LEMMA CloseInv ==
    ASSUME IInv, NEW t \in Thread, Close(t)
    PROVE  IInv'
<1>0. /\ TypeOK /\ Ids /\ Places /\ Sole
      /\ thread[t].held = {} /\ thread[t].ep \notin table
      /\ thread' = [thread EXCEPT ![t] = Idle] /\ live' = live \ {thread[t].ep}
      /\ UNCHANGED <<usage, ops, status, freed, nextWrid, inflight, inflightEp, entry, table,
                     handles, abandoned, reported>>
    BY DEF IInv, Close, Fail, Places
<1>1. /\ thread' \in [Thread -> Frame] /\ thread'[t] = Idle
      /\ \A u \in Thread : u # t => thread'[u] = thread[u]
      /\ Places'
    BY <1>0, IdleFrame, Entering DEF Idle
<1>2. Ids' /\ Sole'
    BY <1>0, <1>1, IdsKept, SoleKept DEF Idle
<1>3. TypeOK'
    BY <1>0, <1>1 DEF TypeOK
<1> QED
    BY <1>1, <1>2, <1>3 DEF IInv

\* What replacing an element of a sequence does.
LEMMA ExceptFacts ==
    ASSUME NEW S, NEW s \in Seq(S), NEW x \in S, NEW i
    PROVE  [s EXCEPT ![i] = x] \in Seq(S) /\ Len([s EXCEPT ![i] = x]) = Len(s)
<1> DEFINE r == [s EXCEPT ![i] = x]
<1>1. Len(s) \in Nat /\ s \in [1 .. Len(s) -> S]
    OBVIOUS
<1>2. r \in [1 .. Len(s) -> S] /\ DOMAIN r = 1 .. Len(s)
    BY <1>1
<1> HIDE DEF r
<1>3. r \in Seq(S)
    BY <1>1, <1>2
<1>4. Len(r) = Len(s)
    BY <1>1, <1>2, <1>3
<1> QED
    BY <1>3, <1>4 DEF r

LEMMA CompleteInv ==
    ASSUME IInv, NEW o \in DOMAIN ops, Complete(o)
    PROVE  IInv'
<1>0. /\ TypeOK /\ Ids /\ Places /\ Sole
      /\ UNCHANGED <<usage, ops, freed, nextWrid, inflight, inflightEp, entry, table, live, thread,
                     handles, abandoned, reported>>
    BY DEF IInv, Complete
<1>1. status' \in Seq({"busy", "ok", "err"}) /\ Len(status') = Len(status)
    <2> DEFINE S == {"busy", "ok", "err"}
    <2>1. status \in Seq(S) /\ "ok" \in S /\ "err" \in S
        BY <1>0 DEF TypeOK
    <2>2. status' = [status EXCEPT ![o] = "ok"] \/ status' = [status EXCEPT ![o] = "err"]
        BY DEF Complete
    <2> HIDE DEF S
    <2>3. \A v \in S : [status EXCEPT ![o] = v] \in Seq(S) /\ Len([status EXCEPT ![o] = v]) = Len(status)
        BY <2>1, ExceptFacts
    <2> QED
        BY <2>1, <2>2, <2>3 DEF S
<1>2. TypeOK'
    BY <1>0, <1>1 DEF TypeOK
<1>3. Ids' /\ Sole' /\ Places'
    BY <1>0, IdsKept, SoleKept DEF Places
<1> QED
    BY <1>2, <1>3 DEF IInv

LEMMA NextInv == IInv /\ [Next]_vars => IInv'
<1> SUFFICES ASSUME IInv, [Next]_vars PROVE IInv'
    OBVIOUS
<1>1. ASSUME NEW t \in Thread, Call(t)
      PROVE  IInv'
    BY <1>1, PutInv, PutNBInv, DisConnectInv, WaitInv, WaitListInv DEF Call
<1>2. ASSUME NEW t \in Thread, Step(t)
      PROVE  IInv'
    BY <1>2, RecordInv, TakeInv, DriveInv, TakeAllInv, PollInv, TimeoutInv, CloseInv DEF Step
<1>3. CASE UNCHANGED vars
    BY <1>3 DEF vars, IInv, TypeOK, Ids, Places, Sole
<1> QED
    BY <1>1, <1>2, <1>3, CompleteInv DEF Next

----------------------------------------------------------------------------
\* The inductive invariant says who owns a request.
LEMMA OwnedByOne == IInv => RequestsOwned
<1> SUFFICES ASSUME IInv, NEW o \in DOMAIN ops
             PROVE  \E w \in Thread \cup Ep \cup {"UCX", "nobody"} : Owners(o) = {w}
    BY DEF RequestsOwned
<1>0. Ids /\ Sole
    BY DEF IInv
<1>1. CASE o \in freed
    <2>1. Owners(o) = {"UCX"}
        BY <1>0, <1>1 DEF Owners, Sole
    <2> QED
        BY <2>1
<1>2. CASE o \in abandoned
    <2>1. Owners(o) = {"nobody"}
        BY <1>0, <1>2 DEF Owners, Sole
    <2> QED
        BY <2>1
<1>3. ASSUME NEW t \in Thread, o \in thread[t].held
      PROVE  Owners(o) = {t}
    BY <1>0, <1>3 DEF Owners, Sole
<1>4. ASSUME NEW e \in Ep, o \in inflight[e]
      PROVE  Owners(o) = {e}
    <2>1. \A d \in Ep : o \in inflight[d] => d = e
        BY <1>0, <1>4 DEF Ids
    <2>2. o \notin freed /\ o \notin abandoned /\ \A t \in Thread : o \notin thread[t].held
        BY <1>0, <1>4 DEF Sole
    <2> QED
        BY <1>4, <2>1, <2>2 DEF Owners
<1> QED
    BY <1>0, <1>1, <1>2, <1>3, <1>4 DEF Sole

\* Every behaviour is well typed, whatever calls the application makes: the
\* tables hold transfers that were posted, and a table of endpoints never keeps
\* one that disConnect has destroyed.
THEOREM UcxTypeCorrect == Spec => []TypeOK
<1>1. IInv => TypeOK
    BY DEF IInv
<1> QED
    BY InitIInv, NextInv, <1>1, PTL DEF Spec

\* A UCX request is in the table of its endpoint, in the hands of the one wait
\* that took it out, given up by it, or given back to UCX, and in one of these
\* places only: no two waits share one, and none is used after
\* ucp_request_free, for every number of endpoints, threads and transfers and
\* even when wr_ids of different endpoints coincide.
THEOREM RequestsHaveOneOwner == Spec => []RequestsOwned
<1> QED
    BY InitIInv, NextInv, OwnedByOne, PTL DEF Spec

----------------------------------------------------------------------------
(***************************************************************************)
(* Applications that keep the tables unambiguous                           *)
(***************************************************************************)
\* The application has one peer's transfers outstanding at a time, closes an
\* endpoint when it has waited for them, and gives lists to wait only where no
\* transfer fails.
Orderly == \A U \in Usages : U \cap {"mix", "rude"} = {} /\ ~({"list", "fail"} \subseteq U)

\* The application is concerned with the transfer.
Out(o) == o \in handles \/ \E t \in Thread : o \in thread[t].asked

\* What a thread knows of the transfers it is about: the requests of those it
\* has yet to look for are filed, and nobody else can find their wr_ids.
Shape(t, f) ==
    /\ f.at \in {"idle", "close"} => f.asked = {} /\ f.todo = {}
    /\ f.at \in {"record", "drive"} => f.ep \in Ep
    /\ f.at = "record" => /\ f.todo = {} /\ entry[f.ep] = t
                          /\ \E o \in DOMAIN ops : /\ f.asked = {o} /\ ops[o].id # 0
                                                   /\ ops[o].ep = f.ep /\ o \in inflight[f.ep]
    /\ f.at = "take" => \E o \in DOMAIN ops : f.asked = {o} /\ f.todo = {<<ops[o].ep, ops[o].id>>}
    /\ f.at = "drive" => /\ f.todo = {} /\ f.held = f.asked
                         /\ entry[f.ep] = t \/ \E o \in f.asked : ops[o].id # 0 /\ ops[o].ep = f.ep
    /\ f.at \in {"takeAll", "driveAll"} =>
          /\ "list" \in usage
          /\ \A o \in f.asked : \/ status[o] = "ok"
                                \/ o \in f.held /\ ops[o].id # 0
                                \/ <<ops[o].ep, ops[o].id>> \in f.todo
    /\ f.at = "driveAll" => \E o \in f.asked : ops[o].id # 0 /\ ops[o].ep = f.ep
    /\ f.at \in {"take", "takeAll", "driveAll"} =>
          \A o \in f.asked : ops[o].id # 0 => inflightEp[ops[o].id] = None
    /\ \A p \in f.todo : \E o \in f.asked : ops[o].ep = p[1] /\ ops[o].id = p[2] /\ o \in inflight[p[1]]
Shapes == \A t \in Thread : Shape(t, thread[t])

\* No two calls are about a transfer, and none that the application can wait for.
Apart ==
    /\ \A t \in Thread : \A o \in thread[t].asked : o \notin handles
    /\ \A t, u \in Thread : \A o \in thread[t].asked : o \in thread[u].asked => t = u

Peer ==
    \A o, p \in DOMAIN ops :
        Out(o) /\ Out(p) /\ ops[o].id # 0 /\ ops[p].id # 0 => ops[o].ep = ops[p].ep

\* What inflight_ep_ says of a wr_id the application has is right.
Recorded ==
    \A o \in handles :
        /\ ops[o].id = 0 => status[o] = "ok"
        /\ ops[o].id # 0 /\ inflightEp[ops[o].id] # None =>
               inflightEp[ops[o].id] = ops[o].ep /\ o \in inflight[ops[o].ep]

\* No endpoint is closed that somebody posts to or waits for.
Closing ==
    /\ \A o \in DOMAIN ops : Out(o) /\ ops[o].id # 0 =>
          /\ ops[o].ep \in live
          /\ \A t \in Thread : thread[t].at = "close" => thread[t].ep # ops[o].ep
    /\ \A e \in Ep : entry[e] # None => e \in table

Errs == \A o \in DOMAIN ops : status[o] = "err" => "fail" \in usage

OInv == Shapes /\ Apart /\ Peer /\ Recorded /\ Closing /\ Errs /\ SuccessMeansDone

----------------------------------------------------------------------------
\* The usage is orderly in every state.
LEMMA OrderlyUsage ==
    ASSUME Orderly, TypeOK
    PROVE  "mix" \notin usage /\ "rude" \notin usage /\ ~("list" \in usage /\ "fail" \in usage)
BY DEF Orderly, TypeOK

\* A thread that another one's step does not concern.
LEMMA ShapeKept ==
    ASSUME NEW u \in Thread, NEW f \in Frame, Shape(u, f), f.asked \subseteq DOMAIN ops,
           UNCHANGED usage, DOMAIN ops \subseteq DOMAIN ops',
           \A i \in DOMAIN ops : ops'[i] = ops[i] /\ (status[i] = "ok" => status'[i] = "ok"),
           \A e \in Ep : entry[e] = u => entry'[e] = u,
           f.at \in {"take", "takeAll", "driveAll"} =>
               \A o \in f.asked : ops[o].id # 0 => inflightEp'[ops[o].id] = None,
           \A o \in f.asked, e \in Ep : o \in inflight[e] => o \in inflight'[e]
    PROVE  Shape(u, f)'
<1>0. f.at \in {"record", "drive"} => f.ep \in Ep
    BY DEF Shape
<1>1. f.at \in {"idle", "close"} => f.asked = {} /\ f.todo = {}
    BY DEF Shape
<1>2. f.at = "record" => /\ f.todo = {} /\ entry'[f.ep] = u
                         /\ \E o \in DOMAIN ops' : /\ f.asked = {o} /\ ops'[o].id # 0
                                                   /\ ops'[o].ep = f.ep /\ o \in inflight'[f.ep]
    BY DEF Shape
<1>3. f.at = "take" => \E o \in DOMAIN ops' : f.asked = {o} /\ f.todo = {<<ops'[o].ep, ops'[o].id>>}
    BY DEF Shape
<1>4. f.at = "drive" => /\ f.todo = {} /\ f.held = f.asked
                        /\ entry'[f.ep] = u \/ \E o \in f.asked : ops'[o].id # 0 /\ ops'[o].ep = f.ep
    BY DEF Shape
<1>5. f.at \in {"takeAll", "driveAll"} =>
          /\ "list" \in usage'
          /\ \A o \in f.asked : \/ status'[o] = "ok"
                                \/ o \in f.held /\ ops'[o].id # 0
                                \/ <<ops'[o].ep, ops'[o].id>> \in f.todo
    BY DEF Shape
<1>6. f.at = "driveAll" => \E o \in f.asked : ops'[o].id # 0 /\ ops'[o].ep = f.ep
    BY DEF Shape
<1>7. f.at \in {"take", "takeAll", "driveAll"} =>
          \A o \in f.asked : ops'[o].id # 0 => inflightEp'[ops'[o].id] = None
    OBVIOUS
<1>8. \A p \in f.todo : \E o \in f.asked : ops'[o].ep = p[1] /\ ops'[o].id = p[2] /\ o \in inflight'[p[1]]
    <2>1. \A p \in f.todo : p[1] \in Ep
        BY DEF Frame
    <2> QED
        BY <2>1 DEF Shape
<1> QED
    BY <1>0, <1>1, <1>2, <1>3, <1>4, <1>5, <1>6, <1>7, <1>8 DEF Shape

\* A step of one thread that posts nothing.
LEMMA OrderlyStep ==
    ASSUME IInv, OInv, NEW t \in Thread, NEW f \in Frame, thread' = [thread EXCEPT ![t] = f],
           UNCHANGED <<usage, ops, status>>,
           Shape(t, f)',
           \A u \in Thread, e \in Ep : u # t /\ entry[e] = u => entry'[e] = u,
           \A u \in Thread : u # t /\ thread[u].at \in {"take", "takeAll", "driveAll"} =>
               \A o \in thread[u].asked : ops[o].id # 0 => inflightEp'[ops[o].id] = None,
           \A o : \A e \in Ep : o \in inflight[e] => o \in inflight'[e] \/ o \in thread[t].asked,
           f.asked \cup handles' \subseteq thread[t].asked \cup handles, f.asked \cap handles' = {},
           Recorded',
           \A o \in DOMAIN ops : Out(o) /\ ops[o].id # 0 =>
               ops[o].ep \in live' /\ (f.at = "close" => f.ep # ops[o].ep),
           \A e \in Ep : entry'[e] # None => e \in table',
           \A o \in reported' : status[o] = "ok"
    PROVE  OInv'
<1>0. TypeOK /\ Places /\ Shapes /\ Apart /\ Peer /\ Closing /\ Errs
    BY DEF IInv, OInv
<1>1. /\ thread'[t] = f /\ \A u \in Thread : u # t => thread'[u] = thread[u]
      /\ thread \in [Thread -> Frame]
    BY <1>0 DEF TypeOK
<1>2. \A o : Out(o)' => Out(o)
    BY <1>1 DEF Out
<1>3. Shapes'
    <2>1. ASSUME NEW u \in Thread, u # t
          PROVE  Shape(u, thread[u])'
        <3>1. PICK h \in Frame : h = thread[u]
            BY <1>1
        <3>2. Shape(u, h) /\ h.asked \subseteq DOMAIN ops
            BY <1>0, <3>1 DEF Shapes, Places
        <3>3. \A o \in h.asked, e \in Ep : o \in inflight[e] => o \in inflight'[e]
            BY <1>0, <2>1, <3>1 DEF Apart
        <3>4. Shape(u, h)'
            BY <2>1, <3>1, <3>2, <3>3, ShapeKept
        <3>5. thread'[u] = h
            BY <1>1, <2>1, <3>1
        <3> QED
            BY SMTT(30), <3>4, <3>5 DEF Shape
    <2>2. Shape(t, thread[t])'
        BY <1>1 DEF Shape
    <2> QED
        BY <2>1, <2>2 DEF Shapes
<1>4. Apart'
    <2>1. \A u \in Thread : \A o \in thread'[u].asked : o \notin handles'
        BY <1>0, <1>1 DEF Apart
    <2>2. \A u, v \in Thread : \A o \in thread'[u].asked : o \in thread'[v].asked => u = v
        BY <1>0, <1>1 DEF Apart
    <2> QED
        BY <2>1, <2>2 DEF Apart
<1>5. Peer'
    BY <1>0, <1>2 DEF Peer
<1>6. Closing'
    BY <1>0, <1>1, <1>2 DEF Closing
<1>7. Errs' /\ SuccessMeansDone'
    BY <1>0 DEF Errs, SuccessMeansDone
<1> QED
    BY <1>3, <1>4, <1>5, <1>6, <1>7 DEF OInv

\* What is filed and recorded stays so when nothing is added to the handles.
LEMMA RecordedKept ==
    ASSUME TypeOK, Recorded, handles' \subseteq handles, UNCHANGED <<ops, status>>,
           \A o \in handles' : ops[o].id # 0 => inflightEp'[ops[o].id] \in {inflightEp[ops[o].id], None},
           \A o \in handles', e \in Ep : o \in inflight[e] => o \in inflight'[e]
    PROVE  Recorded'
<1>1. \A o \in handles : ops[o].ep \in Ep
    BY OpFacts DEF TypeOK
<1> QED
    BY <1>1 DEF Recorded

\* An idle thread knows nothing.
LEMMA IdleShape == \A t : Shape(t, Idle)'
BY DEF Shape, Idle

\* The frame of a thread.
LEMMA FrameFields ==
    ASSUME NEW at \in {"record", "take", "drive", "takeAll", "driveAll", "close"},
           NEW e \in Ep \cup {None}, NEW asked \in SUBSET Op, NEW todo \in SUBSET (Ep \X Id),
           NEW held \in SUBSET Op, NEW f,
           f = [at |-> at, ep |-> e, asked |-> asked, todo |-> todo, held |-> held]
    PROVE  /\ f \in Frame
           /\ f.at = at /\ f.ep = e /\ f.asked = asked /\ f.todo = todo /\ f.held = held
BY DEF Frame

----------------------------------------------------------------------------
(***************************************************************************)
(* Steps of an orderly application                                         *)
(***************************************************************************)
\* The facts of a state that the steps use.
LEMMA OrderlyFacts ==
    ASSUME IInv, OInv, NEW t \in Thread
    PROVE  /\ thread[t] \in Frame /\ Shape(t, thread[t]) /\ thread[t].asked \subseteq DOMAIN ops
           /\ thread[t].ep \in Ep \cup {None} /\ thread[t].asked \in SUBSET Op
           /\ thread[t].todo \in SUBSET (Ep \X Id) /\ thread[t].held \in SUBSET Op
           /\ \A o \in DOMAIN ops : ops[o].ep \in Ep /\ ops[o].id \in Id \cup {0}
           /\ \A o \in DOMAIN ops : Out(o) /\ ops[o].id # 0 => ops[o].ep \in live
           /\ \A e \in Ep : entry[e] # None => e \in table
           /\ \A u \in Thread : thread[u].at \in {"take", "takeAll", "driveAll"} =>
                  \A o \in thread[u].asked : ops[o].id # 0 => inflightEp[ops[o].id] = None
<1>1. TypeOK /\ Places /\ Shapes /\ Closing
    BY DEF IInv, OInv
<1>2. thread[t] \in Frame
    BY <1>1 DEF TypeOK
<1>3. /\ thread[t].ep \in Ep \cup {None} /\ thread[t].asked \in SUBSET Op
      /\ thread[t].todo \in SUBSET (Ep \X Id) /\ thread[t].held \in SUBSET Op
    BY <1>2 DEF Frame
<1>4. \A u \in Thread : thread[u].at \in {"take", "takeAll", "driveAll"} =>
          \A o \in thread[u].asked : ops[o].id # 0 => inflightEp[ops[o].id] = None
    BY <1>1 DEF Shapes, Shape
<1>5. Shape(t, thread[t]) /\ thread[t].asked \subseteq DOMAIN ops
    BY <1>1 DEF Shapes, Places
<1>6. /\ \A o \in DOMAIN ops : Out(o) /\ ops[o].id # 0 => ops[o].ep \in live
      /\ \A e \in Ep : entry[e] # None => e \in table
    BY <1>1 DEF Closing
<1>7. \A o \in DOMAIN ops : ops[o].ep \in Ep /\ ops[o].id \in Id \cup {0}
    BY <1>1, OpFacts
<1> QED
    BY <1>2, <1>3, <1>4, <1>5, <1>6, <1>7

LEMMA RecordOrd ==
    ASSUME Orderly, IInv, OInv, NEW t \in Thread, Record(t)
    PROVE  OInv'
<1>0. /\ TypeOK /\ Ids /\ Places /\ Apart /\ Peer /\ Recorded /\ SuccessMeansDone
      /\ thread[t].at = "record" /\ Shape(t, thread[t])
      /\ entry' = [entry EXCEPT ![thread[t].ep] = None] /\ handles' = handles \cup thread[t].asked
      /\ thread' = [thread EXCEPT ![t] = Idle] /\ UNCHANGED reported
      /\ UNCHANGED <<usage, ops, status, freed, nextWrid, inflight, table, live, abandoned>>
    BY DEF IInv, OInv, Shapes, Record, Fail
<1>1. PICK o \in DOMAIN ops : /\ thread[t].asked = {o} /\ ops[o].id # 0 /\ ops[o].ep = thread[t].ep
                              /\ o \in inflight[thread[t].ep]
    BY <1>0 DEF Shape
<1>2. /\ inflightEp' = [inflightEp EXCEPT ![ops[o].id] = ops[o].ep]
      /\ ops[o].id \in Id /\ ops[o].ep \in Ep /\ entry[ops[o].ep] = t
    BY <1>0, <1>1, OrderlyFacts DEF Record, Shape
<1>3. \A i \in Id : inflightEp'[i] = IF i = ops[o].id THEN ops[o].ep ELSE inflightEp[i]
    BY <1>0, <1>2 DEF TypeOK
<1>4. Out(o) /\ \A p : p \in handles => Out(p)
    BY <1>1 DEF Out
<1>5. ASSUME NEW p \in DOMAIN ops, Out(p), ops[p].id # 0, ops[p].id = ops[o].id
      PROVE  p = o
    BY <1>0, <1>1, <1>4, <1>5 DEF Ids, Peer
<1>6. \A u \in Thread : u # t /\ thread[u].at \in {"take", "takeAll", "driveAll"} =>
          \A p \in thread[u].asked : ops[p].id # 0 => inflightEp'[ops[p].id] = None
    <2> SUFFICES ASSUME NEW u \in Thread, u # t, thread[u].at \in {"take", "takeAll", "driveAll"},
                        NEW p \in thread[u].asked, ops[p].id # 0
                 PROVE  inflightEp'[ops[p].id] = None
        OBVIOUS
    <2>1. p \in DOMAIN ops /\ p # o /\ Out(p) /\ ops[p].id \in Id
        BY <1>0, <1>1, OrderlyFacts DEF Apart, Out, Places
    <2>2. ops[p].id # ops[o].id
        BY <1>5, <2>1
    <2>3. inflightEp[ops[p].id] = None
        BY OrderlyFacts
    <2> QED
        BY <1>3, <2>1, <2>2, <2>3
<1>7. Recorded'
    <2> SUFFICES ASSUME NEW p \in handles'
                 PROVE  /\ ops[p].id = 0 => status[p] = "ok"
                        /\ ops[p].id # 0 /\ inflightEp'[ops[p].id] # None =>
                               inflightEp'[ops[p].id] = ops[p].ep /\ p \in inflight[ops[p].ep]
        BY <1>0 DEF Recorded
    <2>1. CASE p = o
        BY <1>1, <1>2, <1>3, <2>1
    <2>2. CASE p # o
        <3>1. p \in handles /\ Out(p)
            BY <1>0, <1>1, <1>4, <2>2
        <3>2. p \in DOMAIN ops
            BY <1>0, <3>1 DEF TypeOK
        <3>3. ops[p].id # 0 => ops[p].id # ops[o].id /\ ops[p].id \in Id
            BY <1>5, <2>2, <3>1, <3>2, OrderlyFacts
        <3> QED
            BY <1>0, <1>3, <3>1, <3>3 DEF Recorded
    <2> QED
        BY <2>1, <2>2
<1>8. /\ \A e \in Ep : entry'[e] # None => e \in table'
      /\ \A u \in Thread, e \in Ep : u # t /\ entry[e] = u => entry'[e] = u
    <2>1. /\ entry'[ops[o].ep] = None /\ \A e \in Ep : e # ops[o].ep => entry'[e] = entry[e]
        BY <1>0, <1>1, <1>2 DEF TypeOK
    <2> QED
        BY <1>0, <1>2, <2>1, OrderlyFacts
<1>9. /\ Shape(t, Idle)' /\ Idle \in Frame /\ Idle.asked = {} /\ Idle.at # "close"
      /\ Idle.asked \cup handles' \subseteq thread[t].asked \cup handles
    BY <1>0, IdleShape, IdleFrame DEF Idle
<1>10. \A p \in DOMAIN ops : Out(p) /\ ops[p].id # 0 => ops[p].ep \in live'
    BY <1>0, OrderlyFacts
<1>11. \A p \in reported' : status[p] = "ok"
    BY <1>0 DEF SuccessMeansDone
<1> QED
    BY <1>0, <1>6, <1>7, <1>8, <1>9, <1>10, <1>11, OrderlyStep

LEMMA WaitOrd ==
    ASSUME Orderly, IInv, OInv, NEW t \in Thread, NEW o \in handles, Wait(t, o)
    PROVE  OInv'
<1>0. /\ TypeOK /\ Ids /\ Places /\ Apart /\ Recorded /\ SuccessMeansDone
      /\ thread[t] = Idle /\ handles' = handles \ {o} /\ o \in DOMAIN ops
      /\ UNCHANGED <<usage, ops, status, freed, nextWrid, inflight, entry, table, live, abandoned>>
    BY DEF IInv, OInv, Wait, TypeOK
<1>a. ops[o].id \in Id \cup {0} /\ ops[o].ep \in Ep /\ o \in Op /\ 0 \notin Id
    BY <1>0, OrderlyFacts, OpFacts DEF Id
<1>1. ASSUME UNCHANGED <<inflightEp, thread>>, \A p \in reported' : status[p] = "ok"
      PROVE  OInv'
    <2>1. thread' = [thread EXCEPT ![t] = Idle]
        BY <1>0, <1>1 DEF TypeOK
    <2>2. /\ Shape(t, Idle)' /\ Idle \in Frame /\ Idle.asked = {} /\ Idle.at # "close"
          /\ Idle.asked \cup handles' \subseteq thread[t].asked \cup handles
        BY <1>0, IdleShape, IdleFrame DEF Idle
    <2>3. Recorded'
        BY <1>0, <1>1, RecordedKept
    <2>4. /\ \A u \in Thread : u # t /\ thread[u].at \in {"take", "takeAll", "driveAll"} =>
                \A p \in thread[u].asked : ops[p].id # 0 => inflightEp'[ops[p].id] = None
          /\ \A p \in DOMAIN ops : Out(p) /\ ops[p].id # 0 => ops[p].ep \in live'
          /\ \A e \in Ep : entry'[e] # None => e \in table'
        BY <1>0, <1>1, OrderlyFacts
    <2> QED
        BY <1>0, <1>1, <2>1, <2>2, <2>3, <2>4, OrderlyStep
<1>2. CASE ops[o].id = 0 /\ reported' = reported \cup {o} /\ UNCHANGED <<inflightEp, thread>>
    <2>1. status[o] = "ok"
        BY <1>0, <1>2 DEF Recorded
    <2> QED
        BY <1>0, <1>1, <1>2, <2>1 DEF SuccessMeansDone
<1>3. CASE UNCHANGED <<inflightEp, thread, reported>>
    BY <1>0, <1>1, <1>3 DEF SuccessMeansDone
<1>4. CASE /\ ops[o].id # 0 /\ inflightEp[ops[o].id] # None
           /\ inflightEp' = Forget({ops[o].id})
           /\ Enter(t, "take", inflightEp[ops[o].id], {o}, {<<inflightEp[ops[o].id], ops[o].id>>}, {})
           /\ UNCHANGED reported
    <2>1. inflightEp[ops[o].id] = ops[o].ep /\ o \in inflight[ops[o].ep] /\ ops[o].id \in Id
        BY <1>0, <1>a, <1>4 DEF Recorded
    <2>2. PICK f : f = [at |-> "take", ep |-> ops[o].ep, asked |-> {o},
                        todo |-> {<<ops[o].ep, ops[o].id>>}, held |-> {}]
        OBVIOUS
    <2>3. /\ f \in Frame /\ f.at = "take" /\ f.asked = {o} /\ f.todo = {<<ops[o].ep, ops[o].id>>}
          /\ thread' = [thread EXCEPT ![t] = f]
        <3>1. thread' = [thread EXCEPT ![t] = f]
            BY <1>4, <2>1, <2>2 DEF Enter
        <3>2. {<<ops[o].ep, ops[o].id>>} \in SUBSET (Ep \X Id) /\ {o} \in SUBSET Op
            BY <1>a, <2>1
        <3> QED
            BY <1>a, <2>2, <3>1, <3>2, FrameFields
    <2>4. \A i \in Id : inflightEp'[i] = IF i = ops[o].id THEN None ELSE inflightEp[i]
        BY <1>4 DEF Forget
    <2>5. Shape(t, f)'
        BY <1>0, <2>1, <2>3, <2>4 DEF Shape
    <2>6. Recorded'
        <3>1. \A p \in handles' : ops[p].id # 0 => ops[p].id \in Id
            BY <1>0, OrderlyFacts DEF TypeOK
        <3> QED
            BY <1>0, <2>4, <3>1, RecordedKept
    <2>7. /\ \A u \in Thread : u # t /\ thread[u].at \in {"take", "takeAll", "driveAll"} =>
                \A p \in thread[u].asked : ops[p].id # 0 => inflightEp'[ops[p].id] = None
          /\ \A p \in DOMAIN ops : Out(p) /\ ops[p].id # 0 => ops[p].ep \in live'
          /\ \A e \in Ep : entry'[e] # None => e \in table'
        <3>1. \A u \in Thread : thread[u].asked \subseteq DOMAIN ops
            BY <1>0 DEF Places
        <3> QED
            BY <1>0, <2>4, <3>1, OrderlyFacts
    <2>8. f.asked \cup handles' \subseteq thread[t].asked \cup handles /\ f.asked \cap handles' = {}
        BY <1>0, <2>3
    <2>9. \A p \in reported' : status[p] = "ok"
        BY <1>0, <1>4 DEF SuccessMeansDone
    <2> QED
        BY <1>0, <2>3, <2>5, <2>6, <2>7, <2>8, <2>9, OrderlyStep
<1> QED
    BY <1>2, <1>3, <1>4 DEF Wait

LEMMA WaitListOrd ==
    ASSUME Orderly, IInv, OInv, NEW t \in Thread, NEW os \in SUBSET handles, WaitList(t, os)
    PROVE  OInv'
<1> DEFINE ids == IdsOf(os)
<1>0. /\ TypeOK /\ Ids /\ Places /\ Apart /\ Recorded /\ SuccessMeansDone
      /\ thread[t] = Idle /\ "list" \in usage /\ os \subseteq DOMAIN ops
      /\ UNCHANGED <<usage, ops, status, freed, nextWrid, inflight, entry, table, live, abandoned,
                     reported>>
    BY DEF IInv, OInv, WaitList, TypeOK
<1>a. /\ \A p \in DOMAIN ops : ops[p].id \in Id \cup {0} /\ ops[p].ep \in Ep
      /\ os \in SUBSET Op /\ 0 \notin Id
      /\ handles \subseteq DOMAIN ops /\ \A u \in Thread : thread[u].asked \subseteq DOMAIN ops
    BY <1>0, OrderlyFacts, OpFacts DEF Id, TypeOK, Places
<1>b. \A i : i \in ids <=> i # 0 /\ \E o \in os : ops[o].id = i
    BY DEF IdsOf
<1>c. ids \subseteq Id
    BY <1>0, <1>a, <1>b
<1> HIDE DEF ids
<1>1. ASSUME NEW S, inflightEp' = Forget(S)
      PROVE  /\ \A p \in DOMAIN ops : ops[p].id # 0 =>
                    inflightEp'[ops[p].id] \in {inflightEp[ops[p].id], None}
             /\ \A i \in S \cap Id : inflightEp'[i] = None
             /\ \A u \in Thread : u # t /\ thread[u].at \in {"take", "takeAll", "driveAll"} =>
                   \A p \in thread[u].asked : ops[p].id # 0 => inflightEp'[ops[p].id] = None
    <2>1. \A i \in Id : inflightEp'[i] = IF i \in S THEN None ELSE inflightEp[i]
        BY <1>1 DEF Forget
    <2>2. \A p \in DOMAIN ops : ops[p].id # 0 =>
                    inflightEp'[ops[p].id] \in {inflightEp[ops[p].id], None}
        BY <1>a, <2>1
    <2>3. ASSUME NEW u \in Thread, u # t, thread[u].at \in {"take", "takeAll", "driveAll"},
                 NEW p \in thread[u].asked, ops[p].id # 0
          PROVE  inflightEp'[ops[p].id] = None
        <3>1. p \in DOMAIN ops /\ inflightEp[ops[p].id] = None
            BY <1>a, <2>3, OrderlyFacts
        <3> QED
            BY <2>2, <2>3, <3>1
    <2> QED
        BY <2>1, <2>2, <2>3
<1>2. /\ \A p \in DOMAIN ops : Out(p) /\ ops[p].id # 0 => ops[p].ep \in live'
      /\ \A e \in Ep : entry'[e] # None => e \in table'
      /\ \A p \in reported' : status[p] = "ok"
    BY <1>0, OrderlyFacts DEF SuccessMeansDone
<1>3. CASE /\ {i \in ids : inflightEp[i] = None} = {}
           /\ handles' = handles \ os /\ inflightEp' = Forget(ids)
           /\ Enter(t, "takeAll", None, os, {<<inflightEp[i], i>> : i \in ids}, {})
    <2> DEFINE todo == {<<inflightEp[i], i>> : i \in ids}
    <2>1. \A o \in os : ops[o].id # 0 => /\ inflightEp[ops[o].id] = ops[o].ep /\ ops[o].id \in ids
                                         /\ o \in inflight[ops[o].ep]
        BY <1>0, <1>3, <1>b DEF Recorded
    <2>2. todo \in SUBSET (Ep \X Id)
        BY <1>0, <1>a, <1>b, <1>c, <2>1
    <2>3. \A o \in os : ops[o].id # 0 => <<ops[o].ep, ops[o].id>> \in todo
        BY <2>1
    <2>4. \A p \in todo : \E o \in os : ops[o].ep = p[1] /\ ops[o].id = p[2] /\ o \in inflight[p[1]]
        BY <1>b, <2>1
    <2> HIDE DEF todo
    <2>5. PICK f : f = [at |-> "takeAll", ep |-> None, asked |-> os, todo |-> todo, held |-> {}]
        OBVIOUS
    <2>6. /\ f \in Frame /\ f.at = "takeAll" /\ f.asked = os /\ f.todo = todo
          /\ thread' = [thread EXCEPT ![t] = f]
        <3>1. thread' = [thread EXCEPT ![t] = f]
            BY <1>3, <2>5 DEF Enter, todo
        <3> QED
            BY SMTT(30), <1>a, <2>2, <2>5, <3>1, FrameFields
    <2>7. Shape(t, f)'
        <3>1. \A o \in os : ops[o].id # 0 => inflightEp'[ops[o].id] = None
            BY <1>1, <1>3, <1>c, <2>1
        <3>2. \A o \in os : status[o] = "ok" \/ <<ops[o].ep, ops[o].id>> \in todo
            BY <1>0, <2>3 DEF Recorded
        <3> QED
            BY <1>0, <2>4, <2>6, <3>1, <3>2 DEF Shape
    <2>8. Recorded'
        BY <1>0, <1>1, <1>3, <1>a, RecordedKept
    <2>9. f.asked \cup handles' \subseteq thread[t].asked \cup handles /\ f.asked \cap handles' = {}
        BY <1>0, <1>3, <2>6
    <2> QED
        BY <1>0, <1>1, <1>2, <1>3, <2>6, <2>7, <2>8, <2>9, OrderlyStep
<1>4. CASE /\ handles' = handles \ os \/ UNCHANGED handles
           /\ \E before : inflightEp' = Forget(before)
           /\ UNCHANGED thread
    <2>1. thread' = [thread EXCEPT ![t] = Idle]
        BY <1>0, <1>4 DEF TypeOK
    <2>2. /\ Shape(t, Idle)' /\ Idle \in Frame /\ Idle.asked = {} /\ Idle.at # "close"
          /\ Idle.asked \cup handles' \subseteq thread[t].asked \cup handles
        BY <1>0, <1>4, IdleShape, IdleFrame DEF Idle
    <2>3. Recorded'
        BY <1>0, <1>1, <1>4, <1>a, RecordedKept
    <2> QED
        BY <1>0, <1>1, <1>2, <1>4, <2>1, <2>2, <2>3, OrderlyStep
<1> QED
    BY <1>3, <1>4 DEF WaitList, ids

\* A thread that takes requests out takes those it was asked about.
LEMMA FiledAsked ==
    ASSUME IInv, OInv, NEW t \in Thread, NEW e \in Ep, NEW ids,
           \A i \in ids : <<e, i>> \in thread[t].todo
    PROVE  /\ Filed(e, ids) \subseteq thread[t].asked
           /\ \A o \in thread[t].asked : ops[o].ep = e /\ ops[o].id \in ids => o \in Filed(e, ids)
           /\ \A o \in Filed(e, ids) : o \in DOMAIN ops /\ ops[o].ep = e /\ ops[o].id # 0
<1>0. Ids /\ Shape(t, thread[t]) /\ thread[t].asked \subseteq DOMAIN ops
    BY OrderlyFacts DEF IInv
<1>1. \A o \in inflight[e] : o \in DOMAIN ops /\ ops[o].ep = e /\ ops[o].id # 0
    BY <1>0 DEF Ids
<1>2. ASSUME NEW i \in ids, NEW o \in DOMAIN ops, ops[o].ep = e, ops[o].id = i, i # 0
      PROVE  o \in thread[t].asked /\ o \in inflight[e]
    <2>1. PICK p \in thread[t].asked : ops[p].ep = <<e, i>>[1] /\ ops[p].id = <<e, i>>[2] /\ p \in inflight[<<e, i>>[1]]
        BY <1>0 DEF Shape
    <2>2. ops[p].ep = e /\ ops[p].id = i /\ p \in inflight[e] /\ p \in DOMAIN ops
        BY <1>0, <2>1
    <2>3. p = o
        BY <1>0, <1>2, <2>2 DEF Ids
    <2> QED
        BY <2>2, <2>3
<1>3. \A i \in ids : i # 0
    <2> SUFFICES ASSUME NEW i \in ids PROVE i # 0
        OBVIOUS
    <2>1. <<e, i>> \in Ep \X Id
        BY OrderlyFacts
    <2> QED
        BY <2>1, UcxMaxOpsAssumption DEF Id
<1> QED
    BY <1>0, <1>1, <1>2, <1>3 DEF Filed

\* A step that leaves inflight_ep_ and the endpoints alone.
LEMMA CalmStep ==
    ASSUME IInv, OInv, NEW t \in Thread, NEW f \in Frame, thread' = [thread EXCEPT ![t] = f],
           UNCHANGED <<usage, ops, status, inflightEp, table, live, handles>>,
           Shape(t, f)', f.at # "close", f.asked \subseteq thread[t].asked,
           \A e \in Ep : entry'[e] \in {entry[e], None} /\ (entry'[e] # entry[e] => entry[e] = t),
           \A o : \A e \in Ep : o \in inflight[e] => o \in inflight'[e] \/ o \in thread[t].asked,
           \A o \in reported' : status[o] = "ok"
    PROVE  OInv'
<1>0. TypeOK /\ Apart /\ Recorded
    BY DEF IInv, OInv
<1>1. Recorded'
    <2>1. \A o \in handles' : o \notin thread[t].asked
        BY <1>0 DEF Apart
    <2> QED
        BY <1>0, <2>1, RecordedKept
<1>2. /\ \A u \in Thread : u # t /\ thread[u].at \in {"take", "takeAll", "driveAll"} =>
            \A p \in thread[u].asked : ops[p].id # 0 => inflightEp'[ops[p].id] = None
      /\ \A p \in DOMAIN ops : Out(p) /\ ops[p].id # 0 => ops[p].ep \in live'
      /\ \A e \in Ep : entry'[e] # None => e \in table'
    BY OrderlyFacts
<1>3. \A u \in Thread, e \in Ep : u # t /\ entry[e] = u => entry'[e] = u
    OBVIOUS
<1>4. f.asked \cup handles' \subseteq thread[t].asked \cup handles /\ f.asked \cap handles' = {}
    BY <1>0 DEF Apart
<1> QED
    BY <1>1, <1>2, <1>3, <1>4, OrderlyStep

\* Taking requests out at an endpoint leaves the other ones filed.
LEMMA UnfileFacts ==
    ASSUME TypeOK, NEW e \in Ep, NEW os, inflight' = Unfile(e, os)
    PROVE  \A o : \A d \in Ep : o \in inflight[d] => o \in inflight'[d] \/ o \in os
BY DEF TypeOK, Unfile

\* A call returns, and the entry it holds is free again.
LEMMA ReturnOrd ==
    ASSUME IInv, OInv, NEW t \in Thread, thread' = [thread EXCEPT ![t] = Idle],
           UNCHANGED <<usage, ops, status, inflightEp, table, live, handles>>,
           \A e \in Ep : entry'[e] \in {entry[e], None} /\ (entry'[e] # entry[e] => entry[e] = t),
           \A o : \A e \in Ep : o \in inflight[e] => o \in inflight'[e] \/ o \in thread[t].asked,
           \A o \in reported' : status[o] = "ok"
    PROVE  OInv'
<1>1. Shape(t, Idle)' /\ Idle \in Frame /\ Idle.at # "close" /\ Idle.asked \subseteq thread[t].asked
    BY IdleShape, IdleFrame DEF Idle
<1> QED
    BY <1>1, CalmStep

LEMMA TakeOrd ==
    ASSUME Orderly, IInv, OInv, NEW t \in Thread, Take(t)
    PROVE  OInv'
<1>0. /\ TypeOK /\ Ids /\ Shape(t, thread[t]) /\ thread[t].at = "take" /\ SuccessMeansDone
      /\ UNCHANGED <<usage, ops, status, freed, nextWrid, inflightEp, entry, table, live,
                     handles, abandoned>>
    BY OrderlyFacts DEF IInv, OInv, Take
<1>1. PICK o \in DOMAIN ops : thread[t].asked = {o} /\ thread[t].todo = {<<ops[o].ep, ops[o].id>>}
    BY <1>0 DEF Shape
<1>2. PICK e \in Ep : e = ops[o].ep
    BY OrderlyFacts
<1>3. PICK i : i = ops[o].id
    OBVIOUS
<1> DEFINE found == Filed(e, {i})
<1>4. /\ inflight' = Unfile(e, found)
      /\ IF found = {} THEN Fail(t)
         ELSE Enter(t, "drive", e, thread[t].asked, {}, found) /\ UNCHANGED reported
    BY <1>1, <1>2, <1>3 DEF Take
<1>5. found = {o} /\ ops[o].id # 0
    BY <1>1, <1>2, <1>3, FiledAsked
<1>6. Enter(t, "drive", e, {o}, {}, {o}) /\ UNCHANGED reported /\ inflight' = Unfile(e, {o})
    BY <1>1, <1>4, <1>5
<1>7. PICK f : f = [at |-> "drive", ep |-> e, asked |-> {o}, todo |-> {}, held |-> {o}]
    OBVIOUS
<1>8. /\ f \in Frame /\ f.at = "drive" /\ f.ep = e /\ f.asked = {o} /\ f.todo = {} /\ f.held = {o}
      /\ thread' = [thread EXCEPT ![t] = f]
    <2>1. thread' = [thread EXCEPT ![t] = f]
        BY <1>6, <1>7 DEF Enter
    <2>2. {o} \in SUBSET Op
        BY <1>0, OpFacts
    <2> QED
        BY <1>7, <2>1, <2>2, FrameFields
<1>9. Shape(t, f)'
    BY <1>0, <1>2, <1>5, <1>8 DEF Shape
<1>10. \A p : \A d \in Ep : p \in inflight[d] => p \in inflight'[d] \/ p \in thread[t].asked
    BY <1>0, <1>1, <1>6, UnfileFacts
<1>11. /\ \A p \in reported' : status[p] = "ok"
       /\ f.at # "close" /\ f.asked \subseteq thread[t].asked
       /\ \A d \in Ep : entry'[d] \in {entry[d], None} /\ (entry'[d] # entry[d] => entry[d] = t)
    BY <1>0, <1>1, <1>6, <1>8 DEF SuccessMeansDone
<1> QED
    BY <1>0, <1>8, <1>9, <1>10, <1>11, CalmStep

LEMMA DriveOrd ==
    ASSUME Orderly, IInv, OInv, NEW t \in Thread, Drive(t)
    PROVE  OInv'
<1>0. /\ TypeOK /\ Places /\ Shape(t, thread[t]) /\ thread[t].at = "drive" /\ SuccessMeansDone
      /\ entry' = [e \in Ep |-> IF entry[e] = t THEN None ELSE entry[e]]
      /\ UNCHANGED <<usage, ops, status, nextWrid, inflight, inflightEp, table, live, handles,
                     abandoned>>
    BY OrderlyFacts DEF IInv, OInv, Drive
<1>1. PICK o \in thread[t].held : IF Good(o) THEN Succeed(t) ELSE Fail(t)
    BY DEF Drive
<1>2. thread[t].asked = {o}
    BY <1>0, <1>1 DEF Shape, Places
<1>3. thread' = [thread EXCEPT ![t] = Idle] /\ \A p \in reported' : status[p] = "ok"
    BY <1>0, <1>1, <1>2 DEF Succeed, Fail, Good, SuccessMeansDone
<1>4. \A e \in Ep : entry'[e] \in {entry[e], None} /\ (entry'[e] # entry[e] => entry[e] = t)
    BY <1>0
<1> QED
    BY <1>0, <1>3, <1>4, ReturnOrd

LEMMA TakeAllOrd ==
    ASSUME Orderly, IInv, OInv, NEW t \in Thread, TakeAll(t)
    PROVE  OInv'
<1>0. /\ TypeOK /\ Places /\ Shape(t, thread[t]) /\ thread[t].at = "takeAll" /\ SuccessMeansDone
      /\ thread[t].held = {} /\ thread[t].todo \in SUBSET (Ep \X Id)
      /\ thread[t].asked \in SUBSET Op
      /\ UNCHANGED <<usage, ops, status, freed, nextWrid, inflightEp, entry, table, live, handles>>
    BY OrderlyFacts DEF IInv, OInv, TakeAll, Places
<1>1. \A d \in Ep : entry'[d] \in {entry[d], None} /\ (entry'[d] # entry[d] => entry[d] = t)
    BY <1>0
<1>2. CASE thread[t].todo = {} /\ Succeed(t) /\ UNCHANGED <<inflight, abandoned>>
    <2>1. \A o \in thread[t].asked : status[o] = "ok"
        BY <1>0, <1>2 DEF Shape
    <2>2. thread' = [thread EXCEPT ![t] = Idle] /\ \A o \in reported' : status[o] = "ok"
        BY <1>0, <1>2, <2>1 DEF Succeed, SuccessMeansDone
    <2> QED
        BY <1>0, <1>1, <1>2, <2>2, ReturnOrd
<1>3. CASE \E e \in {p[1] : p \in thread[t].todo} :
             LET here == {p \in thread[t].todo : p[1] = e}
                 found == Filed(e, {p[2] : p \in here})
             IN  IF Cardinality(found) < Cardinality(here)
                 THEN \E before \in SUBSET found :
                          /\ inflight' = Unfile(e, before)
                          /\ abandoned' = abandoned \cup before
                          /\ Fail(t)
                 ELSE /\ inflight' = Unfile(e, found)
                      /\ Enter(t, "driveAll", e, thread[t].asked, thread[t].todo \ here, found)
                      /\ UNCHANGED <<abandoned, reported>>
    <2>1. PICK e \in {p[1] : p \in thread[t].todo} :
             LET here == {p \in thread[t].todo : p[1] = e}
                 found == Filed(e, {p[2] : p \in here})
             IN  IF Cardinality(found) < Cardinality(here)
                 THEN \E before \in SUBSET found :
                          /\ inflight' = Unfile(e, before)
                          /\ abandoned' = abandoned \cup before
                          /\ Fail(t)
                 ELSE /\ inflight' = Unfile(e, found)
                      /\ Enter(t, "driveAll", e, thread[t].asked, thread[t].todo \ here, found)
                      /\ UNCHANGED <<abandoned, reported>>
        BY <1>3
    <2>2. PICK here : here = {p \in thread[t].todo : p[1] = e}
        OBVIOUS
    <2>3. PICK ids : ids = {p[2] : p \in here}
        OBVIOUS
    <2>4. PICK found : found = Filed(e, ids)
        OBVIOUS
    <2>5. PICK rest : rest = thread[t].todo \ here
        OBVIOUS
    <2>6. \/ \E before \in SUBSET found : inflight' = Unfile(e, before) /\ Fail(t)
          \/ /\ inflight' = Unfile(e, found)
             /\ Enter(t, "driveAll", e, thread[t].asked, rest, found)
             /\ UNCHANGED reported
        BY <2>1, <2>2, <2>3, <2>4, <2>5
    <2>7. e \in Ep /\ rest \in SUBSET (Ep \X Id)
        BY <1>0, <2>5
    <2>8. \A i \in ids : <<e, i>> \in thread[t].todo
        BY <1>0, <2>2, <2>3
    <2>9. /\ found \subseteq thread[t].asked
          /\ \A o \in thread[t].asked : ops[o].ep = e /\ ops[o].id \in ids => o \in found
          /\ \A o \in found : o \in DOMAIN ops /\ ops[o].ep = e /\ ops[o].id # 0
        BY <2>4, <2>7, <2>8, FiledAsked
    <2>10. CASE \E before \in SUBSET found : inflight' = Unfile(e, before) /\ Fail(t)
        <3>1. PICK before \in SUBSET found : inflight' = Unfile(e, before) /\ Fail(t)
            BY <2>10
        <3>2. \A o : \A d \in Ep : o \in inflight[d] => o \in inflight'[d] \/ o \in thread[t].asked
            BY <1>0, <2>7, <2>9, <3>1, UnfileFacts
        <3>3. thread' = [thread EXCEPT ![t] = Idle] /\ \A o \in reported' : status[o] = "ok"
            BY <1>0, <3>1 DEF Fail, SuccessMeansDone
        <3> QED
            BY <1>0, <1>1, <3>2, <3>3, ReturnOrd
    <2>11. CASE /\ inflight' = Unfile(e, found)
                /\ Enter(t, "driveAll", e, thread[t].asked, rest, found)
                /\ UNCHANGED reported
        <3>1. PICK f : f = [at |-> "driveAll", ep |-> e, asked |-> thread[t].asked, todo |-> rest,
                            held |-> found]
            OBVIOUS
        <3>2. /\ f \in Frame /\ f.at = "driveAll" /\ f.ep = e /\ f.asked = thread[t].asked
              /\ f.todo = rest /\ f.held = found
              /\ thread' = [thread EXCEPT ![t] = f]
            <4>1. thread' = [thread EXCEPT ![t] = f]
                BY <2>11, <3>1 DEF Enter
            <4>2. found \in SUBSET Op
                BY <1>0, <2>9
            <4> QED
                BY <1>0, <2>7, <3>1, <4>1, <4>2, FrameFields
        <3>3. \A o : \A d \in Ep : o \in inflight[d] => o \in inflight'[d] \/ o \in found
            BY <1>0, <2>7, <2>11, UnfileFacts
        <3>4. Shape(t, f)'
            <4>1. \A o \in f.asked : \/ status[o] = "ok"
                                     \/ o \in f.held /\ ops[o].id # 0
                                     \/ <<ops[o].ep, ops[o].id>> \in f.todo
                <5> SUFFICES ASSUME NEW o \in thread[t].asked, <<ops[o].ep, ops[o].id>> \in thread[t].todo,
                                    <<ops[o].ep, ops[o].id>> \notin rest
                             PROVE  o \in found /\ ops[o].id # 0
                    BY <1>0, <3>2 DEF Shape
                <5>1. <<ops[o].ep, ops[o].id>> \in here
                    BY <2>5
                <5>2. ops[o].ep = e /\ ops[o].id \in ids
                    BY <2>2, <2>3, <5>1
                <5> QED
                    BY <2>9, <5>2
            <4>2. \E o \in f.asked : ops[o].id # 0 /\ ops[o].ep = f.ep
                <5>1. PICK p \in thread[t].todo : p[1] = e
                    BY <2>1
                <5>2. PICK o \in thread[t].asked : ops[o].ep = p[1] /\ ops[o].id = p[2]
                    BY <1>0 DEF Shape
                <5>3. p[2] # 0
                    BY <1>0, UcxMaxOpsAssumption DEF Id
                <5> QED
                    BY <3>2, <5>1, <5>2, <5>3
            <4>3. \A p \in f.todo : \E o \in f.asked :
                      ops[o].ep = p[1] /\ ops[o].id = p[2] /\ o \in inflight'[p[1]]
                <5> SUFFICES ASSUME NEW p \in rest
                             PROVE  \E o \in thread[t].asked :
                                        ops[o].ep = p[1] /\ ops[o].id = p[2] /\ o \in inflight'[p[1]]
                    BY <3>2
                <5>1. p \in thread[t].todo /\ p[1] # e /\ p[1] \in Ep
                    BY <1>0, <2>2, <2>5
                <5>2. PICK o \in thread[t].asked : ops[o].ep = p[1] /\ ops[o].id = p[2] /\ o \in inflight[p[1]]
                    BY <1>0, <5>1 DEF Shape
                <5>3. o \notin found
                    BY <2>9, <5>1, <5>2
                <5> QED
                    BY <3>3, <5>1, <5>2, <5>3
            <4>4. /\ "list" \in usage
                  /\ \A o \in f.asked : ops[o].id # 0 => inflightEp[ops[o].id] = None
                BY <1>0, <3>2 DEF Shape
            <4> QED
                BY <1>0, <3>2, <4>1, <4>2, <4>3, <4>4 DEF Shape
        <3>5. \A o : \A d \in Ep : o \in inflight[d] => o \in inflight'[d] \/ o \in thread[t].asked
            BY <2>9, <3>3
        <3>6. \A o \in reported' : status[o] = "ok"
            BY <1>0, <2>11 DEF SuccessMeansDone
        <3> QED
            BY <1>0, <1>1, <3>2, <3>4, <3>5, <3>6, CalmStep
    <2> QED
        BY <2>6, <2>10, <2>11
<1> QED
    BY <1>2, <1>3 DEF TakeAll

LEMMA StatusFacts ==
    ASSUME TypeOK
    PROVE  DOMAIN status = DOMAIN ops /\ \A o \in DOMAIN ops : status[o] \in {"busy", "ok", "err"}
<1> DEFINE S == {"busy", "ok", "err"}
<1>1. status \in Seq(S) /\ Len(status) = Len(ops) /\ DOMAIN ops = 1 .. Len(ops)
    BY OpFacts DEF TypeOK
<1> HIDE DEF S
<1>2. DOMAIN status = 1 .. Len(status) /\ \A i \in DOMAIN status : status[i] \in S
    BY <1>1
<1> QED
    BY <1>1, <1>2 DEF S

LEMMA PollOrd ==
    ASSUME Orderly, IInv, OInv, NEW t \in Thread, Poll(t)
    PROVE  OInv'
<1>0. /\ TypeOK /\ Places /\ Shape(t, thread[t]) /\ thread[t].at = "driveAll" /\ SuccessMeansDone
      /\ Errs /\ thread[t] \in Frame /\ thread[t].held \subseteq DOMAIN ops
      /\ UNCHANGED <<usage, ops, status, nextWrid, inflight, inflightEp, entry, table, live,
                     handles, abandoned, reported>>
    BY OrderlyFacts DEF IInv, OInv, Poll, Places
<1>1. PICK ended : ended = {o \in thread[t].held : status[o] # "busy"}
    OBVIOUS
<1>2. PICK at : at = IF thread[t].held = ended THEN "takeAll" ELSE "driveAll"
    OBVIOUS
<1>3. PICK f : f = [thread[t] EXCEPT !.held = @ \ ended, !.at = at]
    OBVIOUS
<1>4. thread' = [thread EXCEPT ![t] = f]
    BY <1>0, <1>1, <1>2, <1>3 DEF Poll, TypeOK
<1>5. /\ f \in Frame /\ f.held = thread[t].held \ ended /\ f.asked = thread[t].asked
      /\ f.at = at /\ f.todo = thread[t].todo /\ f.ep = thread[t].ep
    BY <1>0, <1>1, <1>2, <1>3 DEF Frame
<1>6. "list" \in usage /\ "fail" \notin usage
    BY <1>0, OrderlyUsage DEF Shape
<1>7. \A o \in ended : status[o] = "ok"
    BY <1>0, <1>1, <1>6, StatusFacts DEF Errs
<1>8. Shape(t, f)'
    BY <1>0, <1>2, <1>5, <1>6, <1>7 DEF Shape
<1>9. /\ \A o \in reported' : status[o] = "ok"
      /\ f.at # "close" /\ f.asked \subseteq thread[t].asked
      /\ \A d \in Ep : entry'[d] \in {entry[d], None} /\ (entry'[d] # entry[d] => entry[d] = t)
      /\ \A o : \A d \in Ep : o \in inflight[d] => o \in inflight'[d] \/ o \in thread[t].asked
    BY <1>0, <1>2, <1>5 DEF SuccessMeansDone
<1> QED
    BY <1>0, <1>4, <1>5, <1>8, <1>9, CalmStep

LEMMA TimeoutOrd ==
    ASSUME Orderly, IInv, OInv, NEW t \in Thread, Timeout(t)
    PROVE  OInv'
<1>0. /\ TypeOK /\ Places /\ Shape(t, thread[t]) /\ thread[t].at = "driveAll" /\ SuccessMeansDone
      /\ Apart /\ Recorded /\ thread[t].todo \in SUBSET (Ep \X Id)
      /\ handles' = handles \/ handles' = handles \cup thread[t].asked
      /\ thread' = [thread EXCEPT ![t] = Idle] /\ UNCHANGED reported
      /\ UNCHANGED <<usage, ops, status, freed, nextWrid, inflight, inflightEp, entry, table, live>>
    BY OrderlyFacts DEF IInv, OInv, Timeout, Fail
<1>1. \A o \in thread[t].asked : /\ ops[o].id = 0 => status[o] = "ok"
                                 /\ ops[o].id # 0 => inflightEp[ops[o].id] = None
    <2> SUFFICES ASSUME NEW o \in thread[t].asked, ops[o].id = 0 PROVE status[o] = "ok"
        BY <1>0 DEF Shape
    <2>1. <<ops[o].ep, ops[o].id>> \notin thread[t].todo
        BY <1>0, UcxMaxOpsAssumption DEF Id
    <2> QED
        BY <1>0, <2>1 DEF Shape
<1>2. Recorded'
    BY <1>0, <1>1 DEF Recorded
<1>3. /\ Shape(t, Idle)' /\ Idle \in Frame /\ Idle.asked = {} /\ Idle.at # "close"
      /\ Idle.asked \cup handles' \subseteq thread[t].asked \cup handles
    BY <1>0, IdleShape, IdleFrame DEF Idle
<1>4. /\ \A u \in Thread : u # t /\ thread[u].at \in {"take", "takeAll", "driveAll"} =>
            \A p \in thread[u].asked : ops[p].id # 0 => inflightEp'[ops[p].id] = None
      /\ \A p \in DOMAIN ops : Out(p) /\ ops[p].id # 0 => ops[p].ep \in live'
      /\ \A e \in Ep : entry'[e] # None => e \in table'
      /\ \A p \in reported' : status[p] = "ok"
    BY <1>0, OrderlyFacts DEF SuccessMeansDone
<1> QED
    BY <1>0, <1>2, <1>3, <1>4, OrderlyStep

\* The transfers the model calls outstanding.
LEMMA OutFacts == \A o : o \in Outstanding <=> Out(o)
BY DEF Outstanding, Out

LEMMA DisConnectOrd ==
    ASSUME Orderly, IInv, OInv, NEW t \in Thread, NEW e \in Ep, DisConnect(t, e)
    PROVE  OInv'
<1>0. /\ TypeOK /\ Recorded /\ SuccessMeansDone /\ thread[t] = Idle
      /\ table' = table \ {e} /\ entry[e] = None
      /\ Enter(t, "close", e, {}, {}, {})
      /\ UNCHANGED <<usage, ops, status, freed, nextWrid, inflight, inflightEp, entry, live,
                     handles, abandoned, reported>>
    BY DEF IInv, OInv, DisConnect, Unhook
<1>1. WaitedFor(e)
    BY <1>0, OrderlyUsage DEF DisConnect
<1>2. \A p \in DOMAIN ops : Out(p) /\ ops[p].id # 0 => ops[p].ep # e
    BY <1>1, OutFacts DEF WaitedFor
<1>3. PICK f : f = [at |-> "close", ep |-> e, asked |-> {}, todo |-> {}, held |-> {}]
    OBVIOUS
<1>4. /\ f \in Frame /\ f.at = "close" /\ f.ep = e /\ f.asked = {} /\ f.todo = {} /\ f.held = {}
      /\ thread' = [thread EXCEPT ![t] = f]
    <2>1. thread' = [thread EXCEPT ![t] = f]
        BY <1>0, <1>3 DEF Enter
    <2> QED
        BY <1>3, <2>1, FrameFields
<1>5. Shape(t, f)'
    BY <1>4 DEF Shape
<1>6. Recorded'
    BY <1>0, RecordedKept
<1>7. /\ \A u \in Thread : u # t /\ thread[u].at \in {"take", "takeAll", "driveAll"} =>
            \A p \in thread[u].asked : ops[p].id # 0 => inflightEp'[ops[p].id] = None
      /\ \A p \in DOMAIN ops : Out(p) /\ ops[p].id # 0 => ops[p].ep \in live'
      /\ \A d \in Ep : entry'[d] # None => d \in table'
      /\ \A p \in reported' : status[p] = "ok"
    BY <1>0, OrderlyFacts DEF SuccessMeansDone
<1>8. f.asked \cup handles' \subseteq thread[t].asked \cup handles /\ f.asked \cap handles' = {}
    BY <1>0, <1>4
<1> QED
    BY <1>0, <1>2, <1>4, <1>5, <1>6, <1>7, <1>8, OrderlyStep

LEMMA CloseOrd ==
    ASSUME Orderly, IInv, OInv, NEW t \in Thread, Close(t)
    PROVE  OInv'
<1>0. /\ TypeOK /\ Recorded /\ Closing /\ SuccessMeansDone /\ thread[t].at = "close"
      /\ live' = live \ {thread[t].ep} /\ thread' = [thread EXCEPT ![t] = Idle]
      /\ UNCHANGED <<usage, ops, status, freed, nextWrid, inflight, inflightEp, entry, table,
                     handles, abandoned, reported>>
    BY DEF IInv, OInv, Close, Fail
<1>1. \A p \in DOMAIN ops : Out(p) /\ ops[p].id # 0 => ops[p].ep \in live'
    BY <1>0 DEF Closing
<1>2. Recorded'
    BY <1>0, RecordedKept
<1>3. /\ Shape(t, Idle)' /\ Idle \in Frame /\ Idle.asked = {} /\ Idle.at # "close"
      /\ Idle.asked \cup handles' \subseteq thread[t].asked \cup handles
    BY <1>0, IdleShape, IdleFrame DEF Idle
<1>4. /\ \A u \in Thread : u # t /\ thread[u].at \in {"take", "takeAll", "driveAll"} =>
            \A p \in thread[u].asked : ops[p].id # 0 => inflightEp'[ops[p].id] = None
      /\ \A e \in Ep : entry'[e] # None => e \in table'
      /\ \A p \in reported' : status[p] = "ok"
    BY <1>0, OrderlyFacts DEF SuccessMeansDone
<1> QED
    BY <1>0, <1>1, <1>2, <1>3, <1>4, OrderlyStep

LEMMA CompleteOrd ==
    ASSUME Orderly, IInv, OInv, NEW o \in DOMAIN ops, Complete(o)
    PROVE  OInv'
<1>0. /\ TypeOK /\ Places /\ Shapes /\ Apart /\ Peer /\ Recorded /\ Closing /\ Errs /\ SuccessMeansDone
      /\ status[o] = "busy"
      /\ UNCHANGED <<usage, ops, freed, nextWrid, inflight, inflightEp, entry, table, live, thread,
                     handles, abandoned, reported>>
    BY DEF IInv, OInv, Complete
<1>1. \A i \in DOMAIN ops : /\ status[i] = "ok" => status'[i] = "ok"
                            /\ status'[i] = "err" => "fail" \in usage
    <2>1. \/ status' = [status EXCEPT ![o] = "ok"]
          \/ "fail" \in usage /\ status' = [status EXCEPT ![o] = "err"]
        BY DEF Complete
    <2> QED
        BY <1>0, <2>1, StatusFacts DEF Errs
<1>2. Shapes'
    <2> SUFFICES ASSUME NEW u \in Thread PROVE Shape(u, thread[u])'
        BY DEF Shapes
    <2>1. PICK f \in Frame : f = thread[u]
        BY OrderlyFacts
    <2>2. Shape(u, f) /\ f.asked \subseteq DOMAIN ops /\ thread'[u] = f
        BY <1>0, <2>1 DEF Shapes, Places
    <2>3. f.at \in {"take", "takeAll", "driveAll"} =>
              \A p \in f.asked : ops[p].id # 0 => inflightEp'[ops[p].id] = None
        BY <1>0, <2>2 DEF Shape
    <2>4. Shape(u, f)'
        BY <1>0, <1>1, <2>2, <2>3, ShapeKept
    <2> QED
        BY <2>2, <2>4 DEF Shape
<1>3. Apart' /\ Peer' /\ Closing'
    BY <1>0 DEF Apart, Peer, Closing, Out
<1>4. handles \subseteq DOMAIN ops /\ reported \subseteq DOMAIN ops
    BY <1>0 DEF TypeOK
<1>5. Recorded' /\ Errs' /\ SuccessMeansDone'
    BY <1>0, <1>1, <1>4 DEF Recorded, Errs, SuccessMeansDone
<1> QED
    BY <1>2, <1>3, <1>5 DEF OInv

----------------------------------------------------------------------------
(***************************************************************************)
(* Posting a transfer                                                      *)
(***************************************************************************)
LEMMA PostStatus ==
    ASSUME TypeOK, NEW e \in Ep, NEW id \in Id \cup {0}, NEW st \in {"busy", "ok", "err"},
           Post(e, id, st)
    PROVE  status'[Len(ops) + 1] = st /\ \A i \in DOMAIN ops : status'[i] = status[i]
<1> DEFINE S == {"busy", "ok", "err"}
<1>1. /\ status \in Seq(S) /\ st \in S /\ status' = Append(status, st)
      /\ Len(status) = Len(ops) /\ DOMAIN ops = 1 .. Len(ops)
    BY OpFacts DEF TypeOK, Post
<1> HIDE DEF S
<1>2. /\ status'[Len(status) + 1] = st
      /\ \A i \in 1 .. Len(status) : status'[i] = status[i]
    BY <1>1, AppendFacts
<1> QED
    BY <1>1, <1>2

LEMMA PostOrd ==
    ASSUME IInv, OInv, NEW t \in Thread, NEW e \in table, NEW id \in Id \cup {0},
           NEW st \in {"busy", "ok"}, Post(e, id, st),
           id # 0 => OnePeer(e),
           NEW f \in Frame, thread[t] = Idle, thread' = [thread EXCEPT ![t] = f],
           UNCHANGED <<usage, inflightEp, table, live>>,
           Shape(t, f)', f.at # "close",
           f.asked \cup handles' \subseteq handles \cup {Len(ops) + 1}, f.asked \cap handles' = {},
           Len(ops) + 1 \in handles' => id = 0 /\ st = "ok",
           reported' \subseteq reported \cup {Len(ops) + 1}, Len(ops) + 1 \in reported' => st = "ok",
           \A d \in Ep : entry'[d] = entry[d] \/ (d = e /\ entry[e] = None),
           \A d \in Ep : inflight[d] \subseteq inflight'[d]
    PROVE  OInv'
<1>0. /\ TypeOK /\ Places /\ Shapes /\ Apart /\ Peer /\ Recorded /\ Closing /\ Errs /\ SuccessMeansDone
      /\ e \in Ep /\ e \in live
    BY DEF IInv, OInv, TypeOK
<1>1. PICK o : o = Len(ops) + 1
    OBVIOUS
<1>a. Post(e, id, st) /\ st \in {"busy", "ok", "err"}
    OBVIOUS
<1>2. /\ DOMAIN ops' = DOMAIN ops \cup {o} /\ o \notin DOMAIN ops
      /\ \A i \in DOMAIN ops : ops'[i] = ops[i]
      /\ ops'[o].ep = e /\ ops'[o].id = id
    BY ZenonT(30), <1>0, <1>1, <1>a, PostFacts
<1>3. status'[o] = st /\ \A i \in DOMAIN ops : status'[i] = status[i]
    BY <1>0, <1>1, <1>a, PostStatus
<1>4. /\ thread'[t] = f /\ \A u \in Thread : u # t => thread'[u] = thread[u]
      /\ thread \in [Thread -> Frame] /\ thread[t].asked = {}
      /\ handles \subseteq DOMAIN ops /\ reported \subseteq DOMAIN ops
      /\ \A u \in Thread : thread[u].asked \subseteq DOMAIN ops
    BY <1>0 DEF TypeOK, Idle, Places
<1>5. /\ \A p : Out(p)' => Out(p) \/ p = o
      /\ \A p : Out(p) => p \in DOMAIN ops
    BY <1>1, <1>4 DEF Out
<1>6. Shapes'
    <2>1. ASSUME NEW u \in Thread, u # t
          PROVE  Shape(u, thread[u])'
        <3>1. PICK h \in Frame : h = thread[u]
            BY <1>4
        <3>2. Shape(u, h) /\ h.asked \subseteq DOMAIN ops
            BY <1>0, <3>1 DEF Shapes, Places
        <3>3. /\ h.at \in {"take", "takeAll", "driveAll"} =>
                    \A p \in h.asked : ops[p].id # 0 => inflightEp'[ops[p].id] = None
              /\ \A d \in Ep : entry[d] = u => entry'[d] = u
            BY <3>2, UcxNoneAssumption DEF Shape
        <3>4. Shape(u, h)'
            BY <1>2, <1>3, <3>2, <3>3, ShapeKept
        <3>5. thread'[u] = h
            BY <1>4, <2>1, <3>1
        <3> QED
            BY ZenonT(30), <3>4, <3>5 DEF Shape
    <2>2. Shape(t, thread[t])'
        BY <1>4 DEF Shape
    <2> QED
        BY <2>1, <2>2 DEF Shapes
<1>7. Apart'
    <2>1. \A u \in Thread : u # t => \A p \in thread[u].asked : p # o /\ p \notin handles
        BY <1>0, <1>2, <1>4 DEF Apart
    <2>2. \A u \in Thread : \A p \in thread'[u].asked : p \notin handles'
        BY <1>1, <1>4, <2>1
    <2>3. \A u, v \in Thread : \A p \in thread'[u].asked : p \in thread'[v].asked => u = v
        BY <1>0, <1>1, <1>4, <2>1 DEF Apart
    <2> QED
        BY <2>2, <2>3 DEF Apart
<1>8. Peer'
    <2>1. \A p \in DOMAIN ops : Out(p) /\ ops[p].id # 0 /\ id # 0 => ops[p].ep = e
        BY OutFacts DEF OnePeer
    <2>2. \A p, q \in DOMAIN ops : Out(p) /\ Out(q) /\ ops[p].id # 0 /\ ops[q].id # 0 => ops[p].ep = ops[q].ep
        BY <1>0 DEF Peer
    <2> SUFFICES ASSUME NEW p \in DOMAIN ops', NEW q \in DOMAIN ops', Out(p) \/ p = o, Out(q) \/ q = o,
                        ops'[p].id # 0, ops'[q].id # 0
                 PROVE  ops'[p].ep = ops'[q].ep
        BY <1>5 DEF Peer
    <2>3. CASE p = o /\ q = o
        BY <2>3
    <2>4. CASE p = o /\ q # o
        BY <1>2, <1>5, <2>1, <2>4
    <2>5. CASE p # o /\ q = o
        BY <1>2, <1>5, <2>1, <2>5
    <2>6. CASE p # o /\ q # o
        BY <1>2, <1>5, <2>2, <2>6
    <2> QED
        BY <2>3, <2>4, <2>5, <2>6
<1>9. Recorded'
    <2> SUFFICES ASSUME NEW p \in handles'
                 PROVE  /\ ops'[p].id = 0 => status'[p] = "ok"
                        /\ ops'[p].id # 0 /\ inflightEp[ops'[p].id] # None =>
                               inflightEp[ops'[p].id] = ops'[p].ep /\ p \in inflight'[ops'[p].ep]
        BY DEF Recorded
    <2>1. CASE p = o
        BY <1>1, <1>2, <1>3, <2>1
    <2>2. CASE p # o
        <3>1. p \in handles /\ p \in DOMAIN ops
            BY <1>1, <1>4, <2>2
        <3>2. ops[p].ep \in Ep
            BY <3>1, OrderlyFacts
        <3> QED
            BY <1>0, <1>2, <1>3, <3>1, <3>2 DEF Recorded
    <2> QED
        BY <2>1, <2>2
<1>10. Closing'
    <2>1. \A u \in Thread : thread'[u].at = "close" => /\ thread'[u] = thread[u] /\ thread[u].at = "close"
                                                       /\ thread[u].ep # e
        BY <1>0, <1>4 DEF Places
    <2>2. \A p \in DOMAIN ops' : Out(p)' /\ ops'[p].id # 0 =>
              /\ ops'[p].ep \in live'
              /\ \A u \in Thread : thread'[u].at = "close" => thread'[u].ep # ops'[p].ep
        BY <1>0, <1>2, <1>5, <2>1 DEF Closing
    <2>3. \A d \in Ep : entry'[d] # None => d \in table'
        BY <1>0 DEF Closing
    <2> QED
        BY <2>2, <2>3 DEF Closing
<1>11. Errs' /\ SuccessMeansDone'
    BY <1>0, <1>1, <1>2, <1>3, <1>4 DEF Errs, SuccessMeansDone
<1> QED
    BY <1>6, <1>7, <1>8, <1>9, <1>10, <1>11 DEF OInv

LEMMA PutOrd ==
    ASSUME IInv, OInv, NEW t \in Thread, NEW e \in Ep, Put(t, e)
    PROVE  OInv'
<1>0. /\ TypeOK /\ thread[t] = Idle /\ e \in table /\ entry[e] = None /\ Apart
      /\ UNCHANGED <<usage, nextWrid, inflight, inflightEp, table, live, handles, abandoned>>
    BY DEF IInv, OInv, Put
<1>1. PICK o : o = Len(ops) + 1
    OBVIOUS
<1>2. /\ (Post(e, 0, "busy") \/ Post(e, 0, "ok"))
      /\ \/ /\ Post(e, 0, "busy") /\ entry' = [entry EXCEPT ![e] = t]
            /\ Enter(t, "drive", e, {o}, {}, {o}) /\ UNCHANGED <<freed, reported>>
         \/ /\ Post(e, 0, "ok") /\ freed' = freed \cup {o} /\ reported' = reported \cup {o}
            /\ UNCHANGED <<entry, thread>>
    BY <1>1 DEF Put
<1>3. o \notin DOMAIN ops /\ o \in Op /\ handles \subseteq DOMAIN ops /\ reported \subseteq DOMAIN ops
    BY <1>0, <1>1, <1>2, PostFacts DEF TypeOK
<1>4. CASE /\ Post(e, 0, "busy") /\ entry' = [entry EXCEPT ![e] = t]
           /\ Enter(t, "drive", e, {o}, {}, {o}) /\ UNCHANGED <<freed, reported>>
    <2>1. PICK f : f = [at |-> "drive", ep |-> e, asked |-> {o}, todo |-> {}, held |-> {o}]
        OBVIOUS
    <2>2. /\ f \in Frame /\ f.at = "drive" /\ f.ep = e /\ f.asked = {o} /\ f.todo = {} /\ f.held = {o}
          /\ thread' = [thread EXCEPT ![t] = f]
        <3>1. thread' = [thread EXCEPT ![t] = f]
            BY <1>4, <2>1 DEF Enter
        <3>2. {o} \in SUBSET Op
            BY <1>3
        <3> QED
            BY <2>1, <3>1, <3>2, FrameFields
    <2>3. entry'[e] = t /\ \A d \in Ep : entry'[d] = entry[d] \/ (d = e /\ entry[e] = None)
        BY <1>0, <1>4 DEF TypeOK
    <2>4. Shape(t, f)'
        BY <2>2, <2>3 DEF Shape
    <2>5. /\ f.asked \cup handles' \subseteq handles \cup {o} /\ f.asked \cap handles' = {}
          /\ o \notin handles' /\ o \notin reported' /\ reported' \subseteq reported \cup {o}
          /\ f.at # "close" /\ \A d \in Ep : inflight[d] \subseteq inflight'[d]
        BY <1>0, <1>3, <1>4, <2>2
    <2> QED
        BY <1>0, <1>1, <1>4, <2>2, <2>3, <2>4, <2>5, PostOrd
<1>5. CASE /\ Post(e, 0, "ok") /\ freed' = freed \cup {o} /\ reported' = reported \cup {o}
           /\ UNCHANGED <<entry, thread>>
    <2>1. thread' = [thread EXCEPT ![t] = Idle]
        BY <1>0, <1>5 DEF TypeOK
    <2>2. Shape(t, Idle)' /\ Idle \in Frame /\ Idle.asked = {} /\ Idle.at # "close"
        BY IdleShape, IdleFrame DEF Idle
    <2>3. o \notin handles' /\ Idle.asked \cup handles' \subseteq handles \cup {o}
        BY <1>0, <1>3, <2>2
    <2> QED
        BY <1>0, <1>1, <1>5, <2>1, <2>2, <2>3, PostOrd
<1> QED
    BY <1>2, <1>4, <1>5

LEMMA PutNBOrd ==
    ASSUME Orderly, IInv, OInv, NEW t \in Thread, NEW e \in Ep, PutNB(t, e)
    PROVE  OInv'
<1>0. /\ TypeOK /\ Ids /\ thread[t] = Idle /\ e \in table /\ entry[e] = None
      /\ UNCHANGED <<usage, inflightEp, table, live, abandoned, reported>>
    BY DEF IInv, OInv, PutNB
<1>a. OnePeer(e)
    BY <1>0, OrderlyUsage DEF PutNB
<1>1. PICK o : o = Len(ops) + 1
    OBVIOUS
<1>2. CASE /\ Post(e, NewId(e), "busy")
           /\ nextWrid' = [nextWrid EXCEPT ![e] = @ + 1]
           /\ inflight' = [inflight EXCEPT ![e] = @ \cup {o}]
           /\ entry' = [entry EXCEPT ![e] = t]
           /\ Enter(t, "record", e, {o}, {}, {})
           /\ UNCHANGED <<freed, handles>>
    <2>1. NewId(e) \in Id \cup {0} /\ NewId(e) # 0
        <3>1. Len(ops) < MaxOps /\ Len(ops) \in Nat /\ nextWrid[e] <= Len(ops) /\ nextWrid[e] \in Nat
            BY <1>0, <1>2, OpFacts DEF Post, Ids, TypeOK
        <3> QED
            BY <3>1, UcxMaxOpsAssumption DEF NewId, Id
    <2>2. /\ DOMAIN ops' = DOMAIN ops \cup {o} /\ o \notin DOMAIN ops /\ o \in Op
          /\ ops'[o].ep = e /\ ops'[o].id = NewId(e)
          /\ handles \subseteq DOMAIN ops /\ reported \subseteq DOMAIN ops
        <3>1. Post(e, NewId(e), "busy")
            BY <1>2
        <3>2. /\ DOMAIN ops' = DOMAIN ops \cup {o} /\ o \notin DOMAIN ops /\ o \in Op
              /\ ops'[o].ep = e
            BY <1>0, <1>1, <2>1, <3>1, PostFacts
        <3>3. ops'[o].id = NewId(e)
            BY <1>0, <1>1, <2>1, <3>1, PostFacts
        <3> QED
            BY <1>0, <3>2, <3>3 DEF TypeOK
    <2>3. PICK f : f = [at |-> "record", ep |-> e, asked |-> {o}, todo |-> {}, held |-> {}]
        OBVIOUS
    <2>4. /\ f \in Frame /\ f.at = "record" /\ f.ep = e /\ f.asked = {o} /\ f.todo = {} /\ f.held = {}
          /\ thread' = [thread EXCEPT ![t] = f]
        <3>1. thread' = [thread EXCEPT ![t] = f]
            BY <1>2, <2>3 DEF Enter
        <3>2. {o} \in SUBSET Op
            BY <2>2
        <3> QED
            BY <2>3, <3>1, <3>2, FrameFields
    <2>5. entry'[e] = t /\ \A d \in Ep : entry'[d] = entry[d] \/ (d = e /\ entry[e] = None)
        BY <1>0, <1>2 DEF TypeOK
    <2>6. o \in inflight'[e] /\ \A d \in Ep : inflight[d] \subseteq inflight'[d]
        BY <1>0, <1>2 DEF TypeOK
    <2>7. Shape(t, f)'
        BY <2>1, <2>2, <2>4, <2>5, <2>6 DEF Shape
    <2>8. /\ f.asked \cup handles' \subseteq handles \cup {o} /\ f.asked \cap handles' = {}
          /\ o \notin handles' /\ o \notin reported' /\ reported' \subseteq reported \cup {o}
          /\ f.at # "close"
        BY <1>0, <1>2, <2>2, <2>4
    <2> QED
        BY <1>0, <1>1, <1>2, <1>a, <2>1, <2>4, <2>5, <2>6, <2>7, <2>8, PostOrd
<1>3. CASE /\ Post(e, 0, "ok")
           /\ freed' = freed \cup {o}
           /\ handles' = handles \cup {o}
           /\ UNCHANGED <<nextWrid, inflight, entry, thread>>
    <2>1. thread' = [thread EXCEPT ![t] = Idle]
        BY <1>0, <1>3 DEF TypeOK
    <2>2. Shape(t, Idle)' /\ Idle \in Frame /\ Idle.asked = {} /\ Idle.at # "close"
        BY IdleShape, IdleFrame DEF Idle
    <2>3. Idle.asked \cup handles' \subseteq handles \cup {o} /\ Idle.asked \cap handles' = {}
        BY <1>3, <2>2
    <2> QED
        BY <1>0, <1>1, <1>3, <2>1, <2>2, <2>3, PostOrd
<1> QED
    BY <1>1, <1>2, <1>3 DEF PutNB

LEMMA InitOInv == Init => OInv
<1> SUFFICES ASSUME Init PROVE OInv
    OBVIOUS
<1>1. /\ DOMAIN ops = {} /\ handles = {} /\ reported = {}
      /\ \A t \in Thread : thread[t] = Idle
      /\ \A e \in Ep : entry[e] = None
    BY DEF Init
<1>2. Shapes
    BY <1>1 DEF Shapes, Shape, Idle
<1> QED
    BY <1>1, <1>2 DEF OInv, Apart, Peer, Recorded, Closing, Errs, SuccessMeansDone, Idle

LEMMA NextOInv ==
    ASSUME Orderly
    PROVE  IInv /\ OInv /\ [Next]_vars => OInv'
<1> SUFFICES ASSUME IInv, OInv, [Next]_vars PROVE OInv'
    OBVIOUS
<1>1. ASSUME NEW t \in Thread, Call(t)
      PROVE  OInv'
    BY <1>1, PutOrd, PutNBOrd, DisConnectOrd, WaitOrd, WaitListOrd DEF Call
<1>2. ASSUME NEW t \in Thread, Step(t)
      PROVE  OInv'
    BY <1>2, RecordOrd, TakeOrd, DriveOrd, TakeAllOrd, PollOrd, TimeoutOrd, CloseOrd DEF Step
<1>3. CASE UNCHANGED vars
    <2>1. Shapes'
        BY <1>3 DEF vars, OInv, Shapes, Shape
    <2> QED
        BY <1>3, <2>1 DEF vars, OInv, Apart, Peer, Recorded, Closing, Errs, SuccessMeansDone, Out
<1> QED
    BY <1>1, <1>2, <1>3, CompleteOrd DEF Next

LEMMA SpecOInv ==
    ASSUME Orderly
    PROVE  Spec => [](IInv /\ OInv)
<1>1. Init => IInv /\ OInv
    BY InitIInv, InitOInv
<1>2. IInv /\ OInv /\ [Next]_vars => (IInv /\ OInv)'
    BY NextInv, NextOInv
<1> QED
    BY <1>1, <1>2, PTL DEF Spec

\* In an orderly application, SUCCESS from put, get or wait says that the
\* transfer it was called for has ended well, although wr_ids of different
\* endpoints coincide and the two tables that resolve them are never locked
\* together, for every number of endpoints, threads and transfers.
THEOREM SuccessIsDone ==
    ASSUME Orderly
    PROVE  Spec => []SuccessMeansDone
<1>1. IInv /\ OInv => SuccessMeansDone
    BY DEF OInv
<1> QED
    BY <1>1, SpecOInv, PTL

LEMMA LiveWaits ==
    ASSUME IInv, OInv
    PROVE  WaitsOnLive
<1> SUFFICES ASSUME NEW t \in Thread
             PROVE  /\ thread[t].at \in {"record", "drive", "driveAll"} => thread[t].ep \in live
                    /\ \A p \in thread[t].todo : p[1] \in live /\ Filed(p[1], {p[2]}) # {}
    BY DEF WaitsOnLive
<1>0. /\ TypeOK /\ Shape(t, thread[t]) /\ thread[t].asked \subseteq DOMAIN ops
      /\ thread[t].todo \in SUBSET (Ep \X Id)
      /\ \A o \in DOMAIN ops : Out(o) /\ ops[o].id # 0 => ops[o].ep \in live
      /\ \A e \in Ep : entry[e] # None => e \in table
    BY OrderlyFacts DEF IInv
<1>1. \A o \in thread[t].asked : ops[o].id # 0 => ops[o].ep \in live
    BY <1>0 DEF Out
<1>2. \A e \in Ep : entry[e] = t => e \in live
    BY <1>0, UcxNoneAssumption DEF TypeOK
<1>3. thread[t].at \in {"record", "drive", "driveAll"} => thread[t].ep \in live
    BY <1>0, <1>1, <1>2 DEF Shape
<1>4. ASSUME NEW p \in thread[t].todo
      PROVE  p[1] \in live /\ Filed(p[1], {p[2]}) # {}
    <2>1. PICK o \in thread[t].asked : ops[o].ep = p[1] /\ ops[o].id = p[2] /\ o \in inflight[p[1]]
        BY <1>0 DEF Shape
    <2>2. p[2] # 0
        BY <1>0, UcxMaxOpsAssumption DEF Id
    <2>3. o \in Filed(p[1], {p[2]})
        BY <2>1 DEF Filed
    <2> QED
        BY <1>1, <2>1, <2>2, <2>3
<1> QED
    BY <1>3, <1>4

\* In an orderly application, a waiting thread finds its request at an endpoint
\* that has not been destroyed, although disConnect looks at neither table and
\* waits use a raw pointer without the entry's mutex.
THEOREM WaitsFindLiveEndpoints ==
    ASSUME Orderly
    PROVE  Spec => []WaitsOnLive
<1>1. IInv /\ OInv => WaitsOnLive
    BY LiveWaits
<1> QED
    BY <1>1, SpecOInv, PTL
=============================================================================
