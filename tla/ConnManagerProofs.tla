------------------------- MODULE ConnManagerProofs -------------------------
(***************************************************************************)
(* Proofs about ConnManager for every set of peers and threads and every    *)
(* number of endpoints: type correctness; and, when one thread of one side  *)
(* establishes the connections of a peer, that a call never runs on a       *)
(* destroyed endpoint and that the newest connection stays reachable.       *)
(***************************************************************************)
EXTENDS ConnManager, WellFoundedInduction, TLAPS

\* The endpoints of a key are added by one thread: either the peer connects or
\* the process does, and then from one of its threads.
OneAdder ==
    /\ \A k \in Key : Role[k] # {"client", "server"}
    /\ \A t, u \in Connector : t = u

----------------------------------------------------------------------------
(***************************************************************************)
(* The inductive invariant                                                 *)
(***************************************************************************)
Created == DOMAIN keyOf

\* The thread has an endpoint that it is going to add.
Adds(t) == thread[t].op \in {"connect", "accept"} /\ thread[t].ep # None

\* What each thread does where, and what it knows.
Place(t, f) ==
    /\ f.op = "none" <=> f.at = "idle"
    /\ f.op = "use" => t \in App /\ f.at \in {"lock", "use"}
    /\ f.op = "connect" => /\ t \in Connector /\ "client" \in Role[f.key]
                           /\ f.at \in {"lock", "dial", "add"}
                           /\ f.at = "add" <=> f.ep # None
    /\ f.op = "disconnect" => t \in App /\ f.at \in {"lock", "erase", "unhook", "destroy"}
    /\ f.op = "accept" => /\ t = Server /\ "server" \in Role[f.key]
                          /\ f.at \in {"erase", "unhook", "destroy", "add"}
                          /\ f.ep # None
    /\ f.op = "event" => /\ t = Server /\ f.ep \in gone
                         /\ f.at \in {"match", "matchLock", "destroy"}
    /\ f.at \in {"lock", "use", "unhook", "matchLock"} => f.ref # None
    /\ f.ref \in Created \cup {None} /\ f.old \in Created \cup {None}
Where == \A t \in Thread : Place(t, thread[t])

\* Entries in the map belong to their key and have an endpoint.
Mapped ==
    /\ \A k \in Key : map[k] # None => /\ map[k] \in Created /\ keyOf[map[k]] = k
                                       /\ entry[map[k]] # None
    /\ \A e \in Ep : entry[e] \in Created \cup {None} /\ (entry[e] # None => e \in Created)
    /\ bound \subseteq Created

\* An endpoint that is still to be added is nowhere else.
Fresh ==
    \A t \in Thread : Adds(t) =>
        /\ thread[t].ep \in Created /\ keyOf[thread[t].ep] = thread[t].key
        /\ entry[thread[t].ep] = None
        /\ \A e \in Ep : entry[e] # thread[t].ep
        /\ \A k \in Key : map[k] # thread[t].ep
        /\ \A u \in Thread : /\ thread[u].ref # thread[t].ep /\ thread[u].old # thread[t].ep
                             /\ Adds(u) /\ thread[u].ep = thread[t].ep => u = t

\* An entry to be unhooked has left the map.
Erased == \A t \in Thread : thread[t].at = "unhook" => \A k \in Key : map[k] # thread[t].ref

\* The listen thread keeps the map mutex while it waits for an entry.
Locked ==
    /\ mapLock = IF thread[Server].at = "matchLock" THEN Server ELSE None
    /\ thread[Server].at = "matchLock" => map[thread[Server].key] = thread[Server].ref

TInv == TypeOK /\ Where /\ Mapped /\ Fresh /\ Erased /\ Locked

\* With one adder an entry only ever holds the endpoint it was created for.
Own ==
    /\ \A e \in Ep : entry[e] # None => entry[e] = e /\ e \in live
    /\ \A t \in Thread : Adds(t) => thread[t].ep \in live

\* A call in progress has locked the entry, and the endpoint is still there.
Using ==
    \A t \in Thread : thread[t].at = "use" =>
        thread[t].ep # None /\ holder[thread[t].ref] = t /\ entry[thread[t].ref] = thread[t].ep

\* An endpoint about to be destroyed is in no entry.
Dying ==
    \A t \in Thread : thread[t].at = "destroy" /\ thread[t].old # None => entry[thread[t].old] = None

\* Who is about to add an endpoint finds no entry for its key.
Free ==
    \A t \in Thread :
        LET f == thread[t]
        IN  /\ f.op = "connect" => map[f.key] = None \/ (f.at = "lock" /\ map[f.key] = f.ref)
            /\ f.op = "accept" /\ f.at # "erase" => map[f.key] = None

\* The endpoint about to be added is its key's newest,
Newest(k, c) == c \in Created /\ keyOf[c] = k /\ \A d \in Created : keyOf[d] = k => d <= c
AddsNewest == \A t \in Thread : Adds(t) => Newest(thread[t].key, thread[t].ep)

\* and when it has been added it stays.
Reachable ==
    \A k \in Key, c \in Ep :
        Newest(k, c) /\ c \notin gone /\ (\A t \in Thread : Adds(t) => thread[t].ep # c) => map[k] = c

SInv == Own /\ Using /\ Dying /\ Free /\ AddsNewest /\ Reachable

----------------------------------------------------------------------------
(***************************************************************************)
(* Frames and endpoints                                                    *)
(***************************************************************************)
LEMMA IdleFacts ==
    /\ Idle.at = "idle" /\ Idle.op = "none" /\ Idle.ref = None /\ Idle.ep = None /\ Idle.old = None
    /\ Idle \in Frame \cup {Idle}
    /\ \A t : Place(t, Idle)
BY DEF Idle, Place

\* A thread in a call has a frame.
LEMMA FrameFacts ==
    ASSUME TypeOK, NEW t \in Thread
    PROVE  /\ thread[t] \in Frame \cup {Idle}
           /\ thread[t].at # "idle" => /\ thread[t] \in Frame
                                       /\ thread[t].key \in Key /\ thread[t].op \in Op
           /\ thread[t].ref \in Ep \cup {None} /\ thread[t].ep \in Ep \cup {None}
           /\ thread[t].old \in Ep \cup {None}
BY DEF TypeOK, Frame, Idle

LEMMA ServerFacts == Server \in Thread /\ App \subseteq Thread /\ None \notin Thread /\ None \notin Ep
BY ConnNoneAssumption, MaxEpsAssumption DEF Thread, Ep

LEMMA CreatedFacts ==
    ASSUME TypeOK
    PROVE  /\ Len(keyOf) \in Nat /\ Created = 1 .. Len(keyOf) /\ Created \subseteq Ep
           /\ \A c \in Created : keyOf[c] \in Key
BY MaxEpsAssumption DEF TypeOK, Created, Ep

\* A thread goes on with another frame.
LEMMA Going ==
    ASSUME TypeOK, NEW t \in Thread, NEW g \in Frame \cup {Idle}, thread' = [thread EXCEPT ![t] = g]
    PROVE  /\ thread' \in [Thread -> Frame \cup {Idle}] /\ thread'[t] = g
           /\ \A u \in Thread : u # t => thread'[u] = thread[u]
BY DEF TypeOK

LEMMA GoingTo ==
    ASSUME TypeOK, NEW t \in Thread, thread[t].at # "idle", NEW at \in At, Goto(t, at)
    PROVE  \E g \in Frame : /\ thread' = [thread EXCEPT ![t] = g]
                            /\ g.at = at /\ g.op = thread[t].op /\ g.key = thread[t].key
                            /\ g.ref = thread[t].ref /\ g.ep = thread[t].ep /\ g.old = thread[t].old
<1> DEFINE g == [thread[t] EXCEPT !.at = at]
<1>1. thread[t] \in Frame
    BY FrameFacts
<1>2. /\ g \in Frame /\ g.at = at /\ g.op = thread[t].op /\ g.key = thread[t].key
      /\ g.ref = thread[t].ref /\ g.ep = thread[t].ep /\ g.old = thread[t].old
    BY <1>1 DEF Frame
<1>3. thread' = [thread EXCEPT ![t] = g]
    BY DEF Goto, TypeOK
<1> HIDE DEF g
<1> QED
    BY <1>2, <1>3

----------------------------------------------------------------------------
(***************************************************************************)
(* Steps that leave the map and the entries as they are                    *)
(***************************************************************************)
\* The endpoint a thread adds does not change.
SameAdds(t, g) ==
    (g.op \in {"connect", "accept"} /\ g.ep # None)
        => Adds(t) /\ g.ep = thread[t].ep /\ g.key = thread[t].key

LEMMA QuietStep ==
    ASSUME TInv, NEW t \in Thread, NEW g \in Frame \cup {Idle}, thread' = [thread EXCEPT ![t] = g],
           UNCHANGED <<map, entry, keyOf, gone>>, bound' \subseteq bound,
           Place(t, g), SameAdds(t, g), g.at # "unhook",
           g.ref \in {thread[t].ref, None} \cup {map[k] : k \in Key}, g.old \in {thread[t].old, None}
    PROVE  /\ thread' \in [Thread -> Frame \cup {Idle}] /\ thread'[t] = g
           /\ \A u \in Thread : u # t => thread'[u] = thread[u]
           /\ Where' /\ Mapped' /\ Fresh' /\ Erased'
<1>0. TypeOK /\ Where /\ Mapped /\ Fresh /\ Erased
    BY DEF TInv
<1>1. /\ thread' \in [Thread -> Frame \cup {Idle}] /\ thread'[t] = g
      /\ \A u \in Thread : u # t => thread'[u] = thread[u]
    BY <1>0, Going
<1>2. Created' = Created
    BY DEF Created
<1>3. Where'
    <2>1. \A u, f : Place(u, f) => Place(u, f)'
        BY <1>2 DEF Place
    <2> QED
        BY <1>0, <1>1, <2>1 DEF Where
<1>4. Mapped'
    BY <1>0, <1>2 DEF Mapped
<1>5. Fresh'
    <2>1. \A u \in Thread : Adds(u)' => /\ Adds(u) /\ thread'[u].ep = thread[u].ep
                                        /\ thread'[u].key = thread[u].key
        BY <1>1 DEF Adds, SameAdds
    <2>2. \A u \in Thread, v \in Thread : Adds(u) =>
              thread'[v].ref # thread[u].ep /\ thread'[v].old # thread[u].ep
        BY <1>0, <1>1 DEF Fresh, Adds
    <2> QED
        BY <1>0, <1>2, <2>1, <2>2 DEF Fresh
<1>6. Erased'
    BY <1>0, <1>1 DEF Erased
<1> QED
    BY <1>1, <1>3, <1>4, <1>5, <1>6

\* What is left to show of a quiet step: the mutexes and live.
LEMMA QuietInv ==
    ASSUME TInv, NEW t \in Thread, NEW g \in Frame \cup {Idle}, thread' = [thread EXCEPT ![t] = g],
           UNCHANGED <<map, entry, keyOf, gone, dropped>>, bound' \subseteq bound,
           Place(t, g), SameAdds(t, g), g.at # "unhook",
           g.ref \in {thread[t].ref, None} \cup {map[k] : k \in Key}, g.old \in {thread[t].old, None},
           live' \subseteq live, holder' \in [Ep -> App \cup {None}],
           \/ UNCHANGED mapLock /\ g.at # "matchLock" /\ thread[t].at # "matchLock"
           \/ t = Server /\ mapLock' = Server /\ g.at = "matchLock" /\ map[g.key] = g.ref
    PROVE  TInv'
<1>0. TypeOK /\ Locked
    BY DEF TInv
<1>1. /\ thread' \in [Thread -> Frame \cup {Idle}] /\ thread'[t] = g
      /\ \A u \in Thread : u # t => thread'[u] = thread[u]
      /\ Where' /\ Mapped' /\ Fresh' /\ Erased'
    BY QuietStep
<1>2. Locked'
    BY <1>0, <1>1, ServerFacts DEF Locked
<1>3. mapLock' \in {None, Server}
    BY <1>2 DEF Locked
<1>4. TypeOK'
    BY <1>0, <1>1, <1>3 DEF TypeOK
<1> QED
    BY <1>1, <1>2, <1>4 DEF TInv

\* Returning from a call is quiet.
LEMMA ReturnInv ==
    ASSUME TInv, NEW t \in Thread, Return(t), thread[t].at # "matchLock",
           UNCHANGED <<map, mapLock, entry, keyOf, bound, gone, dropped>>,
           live' \subseteq live, holder' \in [Ep -> App \cup {None}]
    PROVE  TInv'
<1>1. SameAdds(t, Idle) /\ Idle.at # "unhook" /\ Idle.at # "matchLock"
    BY IdleFacts DEF SameAdds
<1>2. thread' = [thread EXCEPT ![t] = Idle]
    BY DEF Return
<1> QED
    BY <1>1, <1>2, IdleFacts, QuietInv

\* So is going on without looking at the map.
LEMMA GotoInv ==
    ASSUME TInv, NEW t \in Thread, NEW at \in At, Goto(t, at), thread[t].at # "matchLock",
           at \notin {"unhook", "matchLock", "use"}, thread[t].at # "idle",
           thread[t].op = "connect" => at \in {"dial"} /\ thread[t].ep = None,
           thread[t].op = "disconnect" => at = "erase",
           thread[t].op = "accept" => at = "add",
           thread[t].op \notin {"use", "event"},
           UNCHANGED <<map, mapLock, entry, keyOf, bound, gone, dropped>>,
           live' \subseteq live, holder' \in [Ep -> App \cup {None}]
    PROVE  TInv'
<1>0. TypeOK /\ Place(t, thread[t])
    BY DEF TInv, Where
<1>1. PICK g \in Frame : /\ thread' = [thread EXCEPT ![t] = g]
                         /\ g.at = at /\ g.op = thread[t].op /\ g.key = thread[t].key
                         /\ g.ref = thread[t].ref /\ g.ep = thread[t].ep /\ g.old = thread[t].old
    BY <1>0, GoingTo
<1>2. Place(t, g)
    <2>1. thread[t].op \in {"connect", "disconnect", "accept"}
        BY <1>0, FrameFacts DEF Op
    <2> QED
        BY <1>0, <1>1, <2>1 DEF Place
<1>3. SameAdds(t, g)
    BY <1>1 DEF SameAdds, Adds
<1> QED
    BY <1>1, <1>2, <1>3, QuietInv

LEMMA CallInv ==
    ASSUME TInv, NEW t \in App, NEW k \in Key, Call(t, k)
    PROVE  TInv'
<1>0. TypeOK /\ Mapped /\ t \in Thread /\ thread[t] = Idle
    BY ServerFacts DEF TInv, Call, Lookup, ConnectNew
<1>1. ASSUME NEW op \in {"use", "connect", "disconnect"}, Lookup(t, op, k),
             op = "connect" => MayConnect(t, k)
      PROVE  TInv'
    <2> DEFINE g == [at |-> "lock", op |-> op, key |-> k, ref |-> map[k], ep |-> None, old |-> None]
    <2>1. map[k] # None /\ map[k] \in Created /\ map[k] \in Ep
        BY <1>0, <1>1, CreatedFacts DEF Lookup, Mapped
    <2>2. /\ g \in Frame /\ g.at = "lock" /\ g.op = op /\ g.key = k /\ g.ref = map[k]
          /\ g.ep = None /\ g.old = None
        BY <2>1 DEF Frame, At, Op
    <2>3. thread' = [thread EXCEPT ![t] = g]
        BY <1>1 DEF Lookup
    <2> HIDE DEF g
    <2>4. Place(t, g) /\ SameAdds(t, g)
        BY <1>1, <2>1, <2>2 DEF Place, SameAdds, MayConnect
    <2>5. /\ thread[t].at # "matchLock"
          /\ UNCHANGED <<map, mapLock, entry, holder, live, keyOf, bound, gone, dropped>>
          /\ holder \in [Ep -> App \cup {None}]
        BY <1>0, <1>1, IdleFacts DEF Lookup, TypeOK
    <2>6. /\ g.at # "unhook" /\ g.at # "matchLock"
          /\ g.ref \in {thread[t].ref, None} \cup {map[j] : j \in Key} /\ g.old \in {thread[t].old, None}
        BY <2>2
    <2> QED
        BY <1>0, <2>2, <2>3, <2>4, <2>5, <2>6, QuietInv
<1>2. CASE ConnectNew(t, k)
    <2> DEFINE g == [at |-> "dial", op |-> "connect", key |-> k, ref |-> None, ep |-> None,
                     old |-> None]
    <2>2. /\ g \in Frame /\ g.at = "dial" /\ g.op = "connect" /\ g.key = k /\ g.ref = None
          /\ g.ep = None /\ g.old = None
        BY DEF Frame, At, Op
    <2>3. thread' = [thread EXCEPT ![t] = g]
        BY <1>2 DEF ConnectNew
    <2> HIDE DEF g
    <2>4. Place(t, g) /\ SameAdds(t, g)
        BY <1>2, <2>2 DEF Place, SameAdds, ConnectNew, MayConnect
    <2>5. /\ thread[t].at # "matchLock"
          /\ UNCHANGED <<map, mapLock, entry, holder, live, keyOf, bound, gone, dropped>>
          /\ holder \in [Ep -> App \cup {None}]
        BY <1>0, <1>2, IdleFacts DEF ConnectNew, TypeOK
    <2>6. /\ g.at # "unhook" /\ g.at # "matchLock"
          /\ g.ref \in {thread[t].ref, None} \cup {map[j] : j \in Key} /\ g.old \in {thread[t].old, None}
        BY <2>2
    <2> QED
        BY <1>0, <2>2, <2>3, <2>4, <2>5, <2>6, QuietInv
<1> QED
    BY <1>1, <1>2 DEF Call

LEMMA LockEntryInv ==
    ASSUME TInv, NEW t \in Thread, LockEntry(t)
    PROVE  TInv'
<1>0. /\ TypeOK /\ Mapped /\ Place(t, thread[t]) /\ thread[t].at = "lock"
      /\ thread[t] \in Frame /\ thread[t].ref \in Ep
      /\ holder \in [Ep -> App \cup {None}]
      /\ UNCHANGED <<map, mapLock, entry, live, keyOf, bound, gone, dropped>>
    BY FrameFacts DEF TInv, Where, LockEntry, Place, TypeOK
<1>1. CASE /\ thread[t].op = "use" /\ entry[thread[t].ref] # None
           /\ holder' = [holder EXCEPT ![thread[t].ref] = t]
           /\ thread' = [thread EXCEPT ![t].at = "use", ![t].ep = entry[thread[t].ref]]
    <2> DEFINE g == [thread[t] EXCEPT !.at = "use", !.ep = entry[thread[t].ref]]
    <2>1. entry[thread[t].ref] \in Ep
        BY <1>0, <1>1 DEF TypeOK
    <2>2. /\ g \in Frame /\ g.at = "use" /\ g.op = "use" /\ g.key = thread[t].key
          /\ g.ref = thread[t].ref /\ g.old = thread[t].old
        BY <1>0, <1>1, <2>1 DEF Frame, At
    <2>3. thread' = [thread EXCEPT ![t] = g]
        BY <1>0, <1>1 DEF TypeOK
    <2> HIDE DEF g
    <2>4. Place(t, g) /\ SameAdds(t, g) /\ t \in App
        BY <1>0, <1>1, <2>2 DEF Place, SameAdds
    <2>5. holder' \in [Ep -> App \cup {None}]
        BY <1>0, <1>1, <2>4
    <2> QED
        BY <1>0, <2>2, <2>3, <2>4, <2>5, QuietInv
<1>2. CASE Return(t) /\ UNCHANGED holder
    BY <1>0, <1>2, ReturnInv
<1>3. CASE thread[t].op = "connect" /\ Goto(t, "dial") /\ UNCHANGED holder
    <2>1. thread[t].ep = None /\ "dial" \in At
        BY <1>0, <1>3 DEF Place, At
    <2> QED
        BY <1>0, <1>3, <2>1, GotoInv
<1>4. CASE thread[t].op = "disconnect" /\ Goto(t, "erase") /\ UNCHANGED holder
    <2>1. "erase" \in At
        BY DEF At
    <2> QED
        BY <1>0, <1>4, <2>1, GotoInv
<1> QED
    BY <1>1, <1>2, <1>3, <1>4 DEF LockEntry

LEMMA FinishUseInv ==
    ASSUME TInv, NEW t \in Thread, FinishUse(t)
    PROVE  TInv'
<1>1. holder' \in [Ep -> App \cup {None}]
    BY DEF TInv, TypeOK, FinishUse
<1>2. /\ Return(t) /\ thread[t].at = "use"
      /\ UNCHANGED <<map, mapLock, entry, live, keyOf, bound, gone, dropped>>
    BY DEF FinishUse
<1> QED
    BY <1>1, <1>2, ReturnInv

LEMMA DialFailsInv ==
    ASSUME TInv, NEW t \in Thread, DialFails(t)
    PROVE  TInv'
<1>1. holder' \in [Ep -> App \cup {None}]
    BY DEF TInv, TypeOK, DialFails
<1>2. /\ Return(t) /\ thread[t].at = "dial"
      /\ UNCHANGED <<map, mapLock, entry, live, keyOf, bound, gone, dropped>>
    BY DEF DialFails
<1> QED
    BY <1>1, <1>2, ReturnInv

LEMMA DestroyInv ==
    ASSUME TInv, NEW t \in Thread, Destroy(t)
    PROVE  TInv'
<1>0. /\ holder' \in [Ep -> App \cup {None}] /\ Place(t, thread[t])
      /\ live' \subseteq live /\ thread[t].at = "destroy"
      /\ UNCHANGED <<map, mapLock, entry, holder, keyOf, bound, gone, dropped>>
    BY DEF TInv, Where, TypeOK, Destroy
<1>1. CASE thread[t].op = "accept" /\ Goto(t, "add")
    <2>1. "add" \in At
        BY DEF At
    <2> QED
        BY <1>0, <1>1, <2>1, GotoInv
<1>2. CASE Return(t)
    BY <1>0, <1>2, ReturnInv
<1> QED
    BY <1>1, <1>2 DEF Destroy, Removed

LEMMA MatchInv ==
    ASSUME TInv, NEW t \in Thread, Match(t)
    PROVE  TInv'
<1>0. /\ TypeOK /\ Mapped /\ Place(t, thread[t]) /\ thread[t].at = "match" /\ thread[t] \in Frame
      /\ thread[t].op = "event" /\ t = Server
      /\ holder' \in [Ep -> App \cup {None}]
      /\ UNCHANGED <<map, entry, holder, live, keyOf, bound, gone, dropped>>
    <2>1. /\ TypeOK /\ Mapped /\ Place(t, thread[t]) /\ thread[t].at = "match"
          /\ holder' \in [Ep -> App \cup {None}]
          /\ UNCHANGED <<map, entry, holder, live, keyOf, bound, gone, dropped>>
        BY DEF TInv, Where, TypeOK, Match
    <2>2. thread[t] \in Frame /\ thread[t].op \in Op
        BY <2>1, FrameFacts
    <2> QED
        BY <2>1, <2>2 DEF Place, Op
<1>1. CASE Return(t) /\ UNCHANGED mapLock
    BY <1>0, <1>1, ReturnInv
<1>2. CASE /\ map[thread[t].key] # None /\ mapLock' = t
           /\ thread' = [thread EXCEPT ![t].at = "matchLock", ![t].ref = map[thread[t].key]]
    <2> DEFINE g == [thread[t] EXCEPT !.at = "matchLock", !.ref = map[thread[t].key]]
    <2>1. thread[t].key \in Key /\ map[thread[t].key] \in Created /\ map[thread[t].key] \in Ep
        BY <1>0, <1>2, CreatedFacts DEF Mapped, Frame
    <2>2. /\ g \in Frame /\ g.at = "matchLock" /\ g.op = "event" /\ g.key = thread[t].key
          /\ g.ref = map[thread[t].key] /\ g.ep = thread[t].ep /\ g.old = thread[t].old
        BY <1>0, <2>1 DEF Frame, At
    <2>3. thread' = [thread EXCEPT ![t] = g]
        BY <1>0, <1>2 DEF TypeOK
    <2> HIDE DEF g
    <2>4. Place(t, g) /\ SameAdds(t, g)
        BY <1>0, <1>2, <2>1, <2>2 DEF Place, SameAdds
    <2>5. g.ref \in {thread[t].ref, None} \cup {map[j] : j \in Key}
        BY <2>1, <2>2
    <2> QED
        BY <1>0, <1>2, <2>2, <2>3, <2>4, <2>5, QuietInv
<1> QED
    BY <1>1, <1>2 DEF Match

LEMMA DisconnectedInv ==
    ASSUME TInv, NEW c \in Ep, Disconnected(c)
    PROVE  TInv'
<1> DEFINE g == [at |-> "match", op |-> "event", key |-> keyOf[c], ref |-> None, ep |-> c,
                 old |-> None]
<1>0. /\ TypeOK /\ Mapped /\ thread[Server] = Idle /\ c \in bound /\ c \in gone
      /\ holder' \in [Ep -> App \cup {None}] /\ bound' \subseteq bound
      /\ UNCHANGED <<map, mapLock, entry, holder, live, keyOf, gone, dropped>>
      /\ thread' = [thread EXCEPT ![Server] = g]
    BY DEF TInv, TypeOK, Disconnected
<1>1. keyOf[c] \in Key
    BY <1>0, CreatedFacts DEF Mapped
<1>2. /\ g \in Frame /\ g.at = "match" /\ g.op = "event" /\ g.key = keyOf[c] /\ g.ref = None
      /\ g.ep = c /\ g.old = None
    BY <1>1 DEF Frame, At, Op
<1> HIDE DEF g
<1>3. Place(Server, g) /\ SameAdds(Server, g)
    BY <1>0, <1>2 DEF Place, SameAdds
<1> QED
    BY <1>0, <1>2, <1>3, IdleFacts, ServerFacts, QuietInv

LEMMA PeerDropsInv ==
    ASSUME TInv, NEW c \in Ep, PeerDrops(c)
    PROVE  TInv'
<1>0. /\ TypeOK /\ Where /\ Mapped /\ Fresh /\ Erased /\ Locked
      /\ dropped' = dropped \cup {c} /\ gone' = gone \cup {c}
      /\ UNCHANGED <<map, mapLock, entry, holder, live, keyOf, bound, thread>>
    BY DEF TInv, PeerDrops
<1>1. Created' = Created
    BY <1>0 DEF Created
<1>2. TypeOK'
    BY <1>0 DEF TypeOK
<1>3. Where'
    <2>1. \A u, f : Place(u, f) => Place(u, f)'
        BY <1>0, <1>1 DEF Place
    <2> QED
        BY <1>0, <2>1 DEF Where
<1>4. Mapped' /\ Fresh' /\ Erased' /\ Locked'
    BY <1>0, <1>1 DEF Mapped, Fresh, Erased, Locked, Adds
<1> QED
    BY <1>2, <1>3, <1>4 DEF TInv

----------------------------------------------------------------------------
(***************************************************************************)
(* Steps that change the map, the entries or the endpoints                 *)
(***************************************************************************)
\* A new endpoint is nowhere yet.
LEMMA CreateFacts ==
    ASSUME TInv, NEW t \in Thread, NEW op \in Op, NEW at \in At, NEW k \in Key, Create(t, op, at, k)
    PROVE  /\ keyOf' \in Seq(Key) /\ Len(keyOf') <= MaxEps
           /\ NewEp \in Ep /\ NewEp \notin Created /\ Created' = Created \cup {NewEp}
           /\ \A c \in Created : keyOf'[c] = keyOf[c] /\ c <= NewEp
           /\ keyOf'[NewEp] = k
           /\ live' = live \cup {NewEp}
           /\ \E g \in Frame :
                 /\ g.at = at /\ g.op = op /\ g.key = k /\ g.ref = None /\ g.ep = NewEp /\ g.old = None
                 /\ thread' \in [Thread -> Frame \cup {Idle}] /\ thread'[t] = g
                 /\ \A u \in Thread : u # t => thread'[u] = thread[u]
<1>0. TypeOK
    BY DEF TInv
<1>1. keyOf \in Seq(Key) /\ Len(keyOf) < MaxEps /\ keyOf' = Append(keyOf, k) /\ Len(keyOf) \in Nat
    BY <1>0, CreatedFacts DEF Create, TypeOK
<1>2. /\ keyOf' \in Seq(Key) /\ Len(keyOf') = Len(keyOf) + 1 /\ DOMAIN keyOf' = 1 .. Len(keyOf) + 1
      /\ \A c \in 1 .. Len(keyOf) : keyOf'[c] = keyOf[c]
      /\ keyOf'[Len(keyOf) + 1] = k
    BY <1>1
<1>3. /\ NewEp \in Ep /\ NewEp \notin Created /\ Created' = Created \cup {NewEp}
      /\ \A c \in Created : keyOf'[c] = keyOf[c] /\ c <= NewEp
      /\ keyOf'[NewEp] = k
    BY <1>0, <1>1, <1>2, CreatedFacts, MaxEpsAssumption DEF NewEp, Ep, Created
<1> DEFINE g == [at |-> at, op |-> op, key |-> k, ref |-> None, ep |-> NewEp, old |-> None]
<1>4. /\ g \in Frame /\ g.at = at /\ g.op = op /\ g.key = k /\ g.ref = None /\ g.ep = NewEp
      /\ g.old = None
    BY <1>3 DEF Frame
<1>5. thread' = [thread EXCEPT ![t] = g] /\ live' = live \cup {NewEp}
    BY DEF Create
<1> HIDE DEF g
<1>6. /\ thread' \in [Thread -> Frame \cup {Idle}] /\ thread'[t] = g
      /\ \A u \in Thread : u # t => thread'[u] = thread[u]
    BY <1>0, <1>4, <1>5, Going
<1>7. Len(keyOf') <= MaxEps
    BY <1>1, <1>2, MaxEpsAssumption
<1>8. \E h \in Frame :
          /\ h.at = at /\ h.op = op /\ h.key = k /\ h.ref = None /\ h.ep = NewEp /\ h.old = None
          /\ thread' \in [Thread -> Frame \cup {Idle}] /\ thread'[t] = h
          /\ \A u \in Thread : u # t => thread'[u] = thread[u]
    BY <1>4, <1>6
<1> QED
    BY <1>2, <1>3, <1>5, <1>7, <1>8

LEMMA CreateInv ==
    ASSUME TInv, NEW t \in Thread, NEW op \in Op, NEW at \in At, NEW k \in Key, Create(t, op, at, k),
           \/ op = "connect" /\ at = "add" /\ t \in Connector /\ "client" \in Role[k]
           \/ op = "accept" /\ at = "erase" /\ t = Server /\ "server" \in Role[k],
           thread[t].at # "matchLock",
           UNCHANGED <<map, mapLock, entry, holder, gone, dropped>>,
           bound' \subseteq bound \cup {NewEp}
    PROVE  TInv'
<1>0. TypeOK /\ Where /\ Mapped /\ Fresh /\ Erased /\ Locked
    BY DEF TInv
<1> DEFINE c == NewEp
<1>1. /\ keyOf' \in Seq(Key) /\ Len(keyOf') <= MaxEps
      /\ c \in Ep /\ c \notin Created /\ Created' = Created \cup {c}
      /\ \A d \in Created : keyOf'[d] = keyOf[d]
      /\ keyOf'[c] = k
      /\ live' = live \cup {c}
    BY CreateFacts
<1>2. PICK g \in Frame :
          /\ g.at = at /\ g.op = op /\ g.key = k /\ g.ref = None /\ g.ep = c /\ g.old = None
          /\ thread' \in [Thread -> Frame \cup {Idle}] /\ thread'[t] = g
          /\ \A u \in Thread : u # t => thread'[u] = thread[u]
    BY CreateFacts
<1> HIDE DEF c
<1>a. c # None
    BY <1>1, ServerFacts
<1>b. \A d \in Created : d # c
    BY <1>1
<1>3. TypeOK'
    <2>1. bound' \subseteq Ep
        BY <1>0, <1>1 DEF TypeOK, c
    <2> QED
        BY <1>0, <1>1, <1>2, <2>1 DEF TypeOK
<1>4. Where'
    <2>1. \A u \in Thread : Place(u, thread[u]) => Place(u, thread[u])'
            \/ u = t
        BY <1>1, <1>2 DEF Place
    <2>2. Place(t, g)'
        BY <1>1, <1>2, <1>a DEF Place
    <2> QED
        BY <1>0, <1>2, <2>1, <2>2 DEF Where
<1>5. Mapped'
    BY <1>0, <1>1 DEF Mapped, c
<1>6. Fresh'
    <2>1. \A u \in Thread : u # t => (Adds(u)' <=> Adds(u))
        BY <1>2 DEF Adds
    <2>2. \A u \in Thread : thread'[u].ref # c /\ thread'[u].old # c
        BY <1>0, <1>b, <1>a, <1>2 DEF Where, Place
    <2>3. /\ \A e \in Ep : entry[e] # c
          /\ \A j \in Key : map[j] # c
          /\ entry[c] = None
        <3>1. \A j \in Key : map[j] # c
            BY <1>0, <1>b, <1>a DEF Mapped
        <3>2. \A e \in Ep : entry[e] # c
            BY <1>0, <1>b, <1>a DEF Mapped
        <3>3. entry[c] = None
            BY <1>0, <1>1 DEF Mapped
        <3> QED
            BY <3>1, <3>2, <3>3
    <2>4. \A u \in Thread : Adds(u) => thread[u].ep # c
        BY <1>0, <1>b DEF Fresh
    <2>5. ASSUME NEW u \in Thread, Adds(u), u # t
          PROVE  /\ thread'[u].ep \in Created' /\ keyOf'[thread'[u].ep] = thread'[u].key
                 /\ entry'[thread'[u].ep] = None
                 /\ \A e \in Ep : entry'[e] # thread'[u].ep
                 /\ \A j \in Key : map'[j] # thread'[u].ep
                 /\ \A v \in Thread : /\ thread'[v].ref # thread'[u].ep /\ thread'[v].old # thread'[u].ep
                                      /\ Adds(v)' /\ thread'[v].ep = thread'[u].ep => v = u
        <3>1. /\ thread[u].ep \in Created /\ keyOf[thread[u].ep] = thread[u].key
              /\ entry[thread[u].ep] = None /\ thread[u].ep # None
              /\ \A e \in Ep : entry[e] # thread[u].ep
              /\ \A j \in Key : map[j] # thread[u].ep
              /\ \A v \in Thread : /\ thread[v].ref # thread[u].ep /\ thread[v].old # thread[u].ep
                                   /\ Adds(v) /\ thread[v].ep = thread[u].ep => v = u
            BY <1>0, <2>5 DEF Fresh, Adds
        <3>2. thread'[u] = thread[u]
            BY <1>2, <2>5
        <3> QED
            BY <1>1, <1>2, <2>1, <2>4, <2>5, <3>1, <3>2
    <2>6. thread'[t].ep = c /\ thread'[t].key = k
        BY <1>2
    <2> QED
        BY <1>1, <1>2, <2>1, <2>2, <2>3, <2>4, <2>5, <2>6 DEF Fresh
<1>7. Erased'
    BY <1>0, <1>2 DEF Erased
<1>8. Locked'
    BY <1>0, <1>2, ServerFacts DEF Locked
<1> QED
    BY <1>3, <1>4, <1>5, <1>6, <1>7, <1>8 DEF TInv

LEMMA DialInv ==
    ASSUME TInv, NEW t \in Thread, Dial(t)
    PROVE  TInv'
<1>0. /\ TypeOK /\ Place(t, thread[t]) /\ thread[t].at = "dial"
      /\ Create(t, "connect", "add", thread[t].key)
      /\ UNCHANGED <<map, mapLock, entry, holder, bound, gone, dropped>>
    BY DEF TInv, Where, Dial
<1>1. thread[t].op = "connect" /\ thread[t].key \in Key
    BY <1>0, FrameFacts DEF Place, Op
<1>2. t \in Connector /\ "client" \in Role[thread[t].key] /\ "connect" \in Op /\ "add" \in At
    BY <1>0, <1>1 DEF Place, Op, At
<1> QED
    BY <1>0, <1>1, <1>2, CreateInv

LEMMA RequestInv ==
    ASSUME TInv, NEW k \in Key, Request(k)
    PROVE  TInv'
<1>0. /\ Create(Server, "accept", "erase", k) /\ "server" \in Role[k] /\ thread[Server].at # "matchLock"
      /\ bound' = bound \cup {NewEp}
      /\ UNCHANGED <<map, mapLock, entry, holder, gone, dropped>>
    BY IdleFacts DEF Request
<1>1. "accept" \in Op /\ "erase" \in At /\ Server \in Thread
    BY ServerFacts DEF Op, At
<1> QED
    BY <1>0, <1>1, CreateInv

\* The map mutex is free: the listen thread waits for no entry.
LEMMA Unlocked ==
    ASSUME TInv, mapLock = None
    PROVE  thread[Server].at # "matchLock"
BY ServerFacts DEF TInv, Locked

\* What _addEndpoint finds: a new entry, or the entry of the key.
LEMMA AddFacts ==
    ASSUME TInv, NEW t \in Thread, Add(t)
    PROVE  LET f == thread[t]
               e == IF map[f.key] = None THEN f.ep ELSE map[f.key]
           IN  /\ Adds(t) /\ f.key \in Key /\ f.ep \in Created /\ f.at # "matchLock"
               /\ e \in Created /\ keyOf[e] = f.key
               /\ \A u \in Thread : u # t /\ Adds(u) => thread[u].ep # e /\ thread[u].ep # f.ep
               /\ \A u \in Thread : thread[u].at = "unhook" => thread[u].ref # e
               /\ map' = [map EXCEPT ![f.key] = e] /\ entry' = [entry EXCEPT ![e] = f.ep]
               /\ live' = live \ {entry[e]}
<1>0. TypeOK /\ Where /\ Mapped /\ Fresh /\ Erased /\ thread[t].at = "add"
    BY DEF TInv, Add
<1>1. thread[t].key \in Key /\ thread[t].op \in {"connect", "accept"} /\ thread[t].ep # None
    BY <1>0, FrameFacts DEF Where, Place, Op
<1>2. Adds(t)
    BY <1>1 DEF Adds
<1>3. thread[t].ep \in Created /\ keyOf[thread[t].ep] = thread[t].key
    BY <1>0, <1>2 DEF Fresh
<1>4. \A u \in Thread : u # t /\ Adds(u) => /\ thread[u].ep # thread[t].ep
                                            /\ thread[u].ep # map[thread[t].key]
    BY <1>0, <1>1, <1>2 DEF Fresh
<1>5. \A u \in Thread : thread[u].at = "unhook" => /\ thread[u].ref # thread[t].ep
                                                   /\ thread[u].ref # map[thread[t].key]
    BY <1>0, <1>1, <1>2 DEF Fresh, Erased
<1>6. map[thread[t].key] # None => /\ map[thread[t].key] \in Created
                                   /\ keyOf[map[thread[t].key]] = thread[t].key
    BY <1>0, <1>1 DEF Mapped
<1> QED
    BY <1>0, <1>1, <1>2, <1>3, <1>4, <1>5, <1>6 DEF Add

LEMMA AddInv ==
    ASSUME TInv, NEW t \in Thread, Add(t)
    PROVE  TInv'
<1> DEFINE f == thread[t]
           e == IF map[f.key] = None THEN f.ep ELSE map[f.key]
<1>0. TypeOK /\ Where /\ Mapped /\ Fresh /\ Erased /\ Locked
    BY DEF TInv
<1>1. /\ Adds(t) /\ f.key \in Key /\ f.ep \in Created /\ f.at # "matchLock"
      /\ e \in Created /\ keyOf[e] = f.key
      /\ \A u \in Thread : u # t /\ Adds(u) => thread[u].ep # e /\ thread[u].ep # f.ep
      /\ \A u \in Thread : thread[u].at = "unhook" => thread[u].ref # e
      /\ map' = [map EXCEPT ![f.key] = e] /\ entry' = [entry EXCEPT ![e] = f.ep]
      /\ live' \subseteq live
    BY AddFacts
<1>2. mapLock = None /\ Return(t) /\ UNCHANGED <<mapLock, holder, keyOf, bound, gone, dropped>>
    BY DEF Add
<1> HIDE DEF e
<1>3. Created' = Created /\ Created \subseteq Ep /\ e \in Ep /\ e # None
    BY <1>0, <1>1, <1>2, CreatedFacts, ServerFacts DEF Created
<1>4. /\ thread' \in [Thread -> Frame \cup {Idle}] /\ thread'[t] = Idle
      /\ \A u \in Thread : u # t => thread'[u] = thread[u]
    BY <1>0, <1>2, IdleFacts, Going DEF Return
<1>5. /\ map' \in [Key -> Ep \cup {None}] /\ map'[f.key] = e
      /\ \A k \in Key : k # f.key => map'[k] = map[k]
      /\ entry' \in [Ep -> Ep \cup {None}] /\ entry'[e] = f.ep
      /\ \A d \in Ep : d # e => entry'[d] = entry[d]
    BY <1>0, <1>1, <1>3 DEF TypeOK
<1>6. TypeOK'
    BY <1>0, <1>1, <1>2, <1>4, <1>5 DEF TypeOK
<1>7. Where'
    <2>1. \A u, h : Place(u, h) => Place(u, h)'
        BY <1>2, <1>3 DEF Place
    <2> QED
        BY <1>0, <1>4, <2>1, IdleFacts DEF Where
<1>8. Mapped'
    <2>1. \A k \in Key : map'[k] # None => /\ map'[k] \in Created /\ keyOf[map'[k]] = k
                                           /\ entry'[map'[k]] # None
        <3>1. f.ep # None
            BY <1>1 DEF Adds
        <3> QED
            BY <1>0, <1>1, <1>3, <1>5, <3>1 DEF Mapped
    <2>2. \A d \in Ep : entry'[d] \in Created \cup {None} /\ (entry'[d] # None => d \in Created)
        BY <1>0, <1>1, <1>5 DEF Mapped
    <2> QED
        BY <1>0, <1>2, <1>3, <2>1, <2>2 DEF Mapped
<1>9. Fresh'
    <2>1. \A u \in Thread : Adds(u)' => u # t /\ Adds(u)
        BY <1>4, IdleFacts DEF Adds
    <2>2. \A u \in Thread : thread'[u].ref \in {thread[u].ref, None} /\ thread'[u].old \in {thread[u].old, None}
        BY <1>4, IdleFacts
    <2> SUFFICES ASSUME NEW u \in Thread, u # t, Adds(u)
                 PROVE  /\ thread[u].ep \in Created /\ keyOf[thread[u].ep] = thread[u].key
                        /\ entry'[thread[u].ep] = None
                        /\ \A d \in Ep : entry'[d] # thread[u].ep
                        /\ \A k \in Key : map'[k] # thread[u].ep
                        /\ \A v \in Thread : /\ thread'[v].ref # thread[u].ep /\ thread'[v].old # thread[u].ep
                                             /\ Adds(v) /\ thread[v].ep = thread[u].ep => v = u
        BY <1>2, <1>3, <1>4, <2>1 DEF Fresh
    <2>3. thread[u].ep # e /\ thread[u].ep # f.ep /\ thread[u].ep # None
        BY <1>1 DEF Adds
    <2>4. /\ thread[u].ep \in Created /\ keyOf[thread[u].ep] = thread[u].key
          /\ entry[thread[u].ep] = None
          /\ \A d \in Ep : entry[d] # thread[u].ep
          /\ \A k \in Key : map[k] # thread[u].ep
          /\ \A v \in Thread : /\ thread[v].ref # thread[u].ep /\ thread[v].old # thread[u].ep
                               /\ Adds(v) /\ thread[v].ep = thread[u].ep => v = u
        BY <1>0 DEF Fresh
    <2> QED
        BY <1>3, <1>5, <2>2, <2>3, <2>4
<1>10. Erased'
    BY <1>0, <1>1, <1>4, <1>5, IdleFacts DEF Erased
<1>11. Locked'
    BY <1>0, <1>2, <1>4, Unlocked, IdleFacts, ServerFacts DEF Locked
<1> QED
    BY <1>6, <1>7, <1>8, <1>9, <1>10, <1>11 DEF TInv

\* What the entry's removal from the map leaves to show: the thread that has
\* removed it goes on, and every other thread is where it was.
LEMMA RemoveInv ==
    ASSUME TInv, NEW t \in Thread, NEW g \in Frame \cup {Idle}, thread' = [thread EXCEPT ![t] = g],
           NEW k \in Key, map' = [map EXCEPT ![k] = None] \/ UNCHANGED map,
           NEW e \in Ep,
           \/ UNCHANGED entry
           \/ entry' = [entry EXCEPT ![e] = None] /\ \A j \in Key : map'[j] # e,
           UNCHANGED <<holder, live, keyOf, bound, dropped>>, gone \subseteq gone', gone' \subseteq Ep,
           Place(t, g), SameAdds(t, g),
           g.at = "unhook" => \A j \in Key : map'[j] # g.ref,
           \A u \in Thread : Adds(u) => thread[u].ep # g.ref /\ thread[u].ep # g.old,
           Locked'
    PROVE  TInv'
<1>0. TypeOK /\ Where /\ Mapped /\ Fresh /\ Erased /\ Locked
    BY DEF TInv
<1>1. /\ thread' \in [Thread -> Frame \cup {Idle}] /\ thread'[t] = g
      /\ \A u \in Thread : u # t => thread'[u] = thread[u]
    BY <1>0, Going
<1>2. Created' = Created
    BY DEF Created
<1>3. /\ map' \in [Key -> Ep \cup {None}] /\ \A j \in Key : map'[j] \in {map[j], None}
      /\ entry' \in [Ep -> Ep \cup {None}] /\ \A d \in Ep : entry'[d] \in {entry[d], None}
      /\ \A j \in Key : map'[j] # None => entry'[map'[j]] = entry[map[j]]
    <2>1. map' \in [Key -> Ep \cup {None}] /\ \A j \in Key : map'[j] \in {map[j], None}
        BY <1>0 DEF TypeOK
    <2>2. entry' \in [Ep -> Ep \cup {None}] /\ \A d \in Ep : entry'[d] \in {entry[d], None}
        BY <1>0 DEF TypeOK
    <2>3. ASSUME NEW j \in Key, map'[j] # None
          PROVE  entry'[map'[j]] = entry[map[j]]
        BY <1>0, <2>1, <2>3 DEF TypeOK
    <2> QED
        BY <2>1, <2>2, <2>3
<1>4. TypeOK'
    <2>1. mapLock' \in {None, Server}
        BY DEF Locked
    <2> QED
        BY <1>0, <1>1, <1>3, <2>1 DEF TypeOK
<1>5. Where'
    <2>1. \A u, f : Place(u, f) => Place(u, f)'
        BY <1>2 DEF Place
    <2> QED
        BY <1>0, <1>1, <2>1 DEF Where
<1>6. Mapped'
    BY <1>0, <1>2, <1>3 DEF Mapped
<1>7. Fresh'
    <2>1. \A u \in Thread : Adds(u)' => /\ Adds(u) /\ thread'[u].ep = thread[u].ep
                                        /\ thread'[u].key = thread[u].key
        BY <1>1 DEF Adds, SameAdds
    <2>2. \A u \in Thread, v \in Thread : Adds(u) =>
              thread'[v].ref # thread[u].ep /\ thread'[v].old # thread[u].ep
        BY <1>0, <1>1 DEF Fresh
    <2> SUFFICES ASSUME NEW u \in Thread, Adds(u)
                 PROVE  /\ thread[u].ep \in Created /\ keyOf[thread[u].ep] = thread[u].key
                        /\ entry'[thread[u].ep] = None
                        /\ \A d \in Ep : entry'[d] # thread[u].ep
                        /\ \A j \in Key : map'[j] # thread[u].ep
                        /\ \A v \in Thread : Adds(v) /\ thread[v].ep = thread[u].ep => v = u
        BY <1>2, <2>1, <2>2 DEF Fresh
    <2>3. /\ thread[u].ep \in Created /\ keyOf[thread[u].ep] = thread[u].key
          /\ entry[thread[u].ep] = None /\ thread[u].ep # None
          /\ \A d \in Ep : entry[d] # thread[u].ep
          /\ \A j \in Key : map[j] # thread[u].ep
          /\ \A v \in Thread : Adds(v) /\ thread[v].ep = thread[u].ep => v = u
        BY <1>0 DEF Fresh, Adds
    <2>4. thread[u].ep \in Ep
        BY <1>0, <2>3, CreatedFacts
    <2> QED
        BY <1>3, <2>3, <2>4
<1>8. Erased'
    <2>1. \A u \in Thread : thread[u].at = "unhook" => thread[u].ref # None
        BY <1>0 DEF Where, Place
    <2> QED
        BY <1>0, <1>1, <1>3, <2>1 DEF Erased
<1> QED
    BY <1>4, <1>5, <1>6, <1>7, <1>8 DEF TInv

LEMMA EraseInv ==
    ASSUME TInv, NEW t \in Thread, Erase(t)
    PROVE  TInv'
<1> DEFINE f == thread[t]
<1>0. /\ TypeOK /\ Mapped /\ Fresh /\ Place(t, f) /\ f.at = "erase" /\ mapLock = None
      /\ UNCHANGED <<mapLock, entry, holder, live, keyOf, bound, dropped>>
    BY DEF TInv, Where, Erase
<1>1. f \in Frame /\ f.key \in Key /\ f.op \in {"disconnect", "accept"}
    BY <1>0, FrameFacts DEF Place, Op
<1>2. CASE map[f.key] = None
    <2>0. Removed(t) /\ UNCHANGED <<map, gone>> /\ holder' \in [Ep -> App \cup {None}]
        BY <1>0, <1>2 DEF Erase, TypeOK
    <2>1. CASE f.op = "accept"
        <3>1. Goto(t, "add") /\ "add" \in At
            BY <2>0, <2>1 DEF Removed, At
        <3> QED
            BY <1>0, <2>0, <2>1, <3>1, GotoInv
    <2>2. CASE f.op # "accept"
        <3>1. Return(t)
            BY <2>0, <2>2 DEF Removed
        <3> QED
            BY <1>0, <2>0, <3>1, ReturnInv
    <2> QED
        BY <2>1, <2>2
<1>3. CASE map[f.key] # None
    <2> DEFINE e == map[f.key]
               g == [f EXCEPT !.at = "unhook", !.ref = e]
    <2>0. /\ map' = [map EXCEPT ![f.key] = None]
          /\ gone' = IF f.op = "disconnect" THEN gone \cup {entry[e]} ELSE gone
          /\ thread' = [thread EXCEPT ![t] = g]
        BY <1>0, <1>3 DEF Erase, TypeOK
    <2>1. /\ e \in Created /\ e \in Ep /\ entry[e] \in Ep
          /\ \A j \in Key : map'[j] # e
        <3>1. e \in Created /\ keyOf[e] = f.key /\ entry[e] # None /\ e \in Ep
            BY <1>0, <1>1, <1>3, CreatedFacts DEF Mapped
        <3>2. \A j \in Key : map[j] = e => j = f.key
            BY <1>0, <1>3, <3>1 DEF Mapped
        <3>3. \A j \in Key : map'[j] # e
            BY <1>0, <1>1, <1>3, <2>0, <3>2 DEF TypeOK
        <3> QED
            BY <1>0, <3>1, <3>3 DEF TypeOK
    <2>2. /\ g \in Frame /\ g.at = "unhook" /\ g.op = f.op /\ g.key = f.key /\ g.ref = e
          /\ g.ep = f.ep /\ g.old = f.old
        BY <1>1, <2>1 DEF Frame, At
    <2>3. gone \subseteq gone' /\ gone' \subseteq Ep
        BY <1>0, <2>0, <2>1 DEF TypeOK
    <2>4. \A u \in Thread : Adds(u) => thread[u].ep # e /\ thread[u].ep # f.old
        BY <1>0, <1>1 DEF Fresh
    <2> HIDE DEF g, e
    <2>5. Place(t, g) /\ SameAdds(t, g)
        BY <1>0, <1>1, <1>3, <2>1, <2>2 DEF Place, SameAdds, Adds, e
    <2>6. Locked'
        <3>1. thread'[t] = g /\ \A u \in Thread : u # t => thread'[u] = thread[u]
            BY <1>0, <2>0, <2>2, Going
        <3> QED
            BY <1>0, <2>2, <3>1, Unlocked, ServerFacts DEF Locked
    <2>7. \/ map' = [map EXCEPT ![f.key] = None]
          \/ UNCHANGED map
        BY <2>0
    <2>8. g.at = "unhook" => \A j \in Key : map'[j] # g.ref
        BY <2>1, <2>2
    <2>9. \A u \in Thread : Adds(u) => thread[u].ep # g.ref /\ thread[u].ep # g.old
        BY <2>2, <2>4
    <2> QED
        BY <1>0, <1>1, <2>0, <2>1, <2>2, <2>3, <2>5, <2>6, <2>7, <2>8, <2>9, RemoveInv
<1> QED
    BY <1>2, <1>3

LEMMA UnhookInv ==
    ASSUME TInv, NEW t \in Thread, Unhook(t)
    PROVE  TInv'
<1> DEFINE f == thread[t]
           g == [f EXCEPT !.at = "destroy", !.old = entry[f.ref]]
<1>0. /\ TypeOK /\ Where /\ Mapped /\ Fresh /\ Erased /\ Locked /\ Place(t, f) /\ f.at = "unhook"
      /\ entry' = [entry EXCEPT ![f.ref] = None] /\ thread' = [thread EXCEPT ![t] = g]
      /\ UNCHANGED <<map, mapLock, holder, live, keyOf, bound, gone, dropped>>
    BY DEF TInv, Where, TypeOK, Unhook
<1>1. f \in Frame /\ f.key \in Key /\ f.op \in {"disconnect", "accept"} /\ f.ref \in Ep
    BY <1>0, FrameFacts DEF Place, Op
<1>2. entry[f.ref] \in Created \cup {None} /\ entry[f.ref] \in Ep \cup {None}
    BY <1>0, <1>1 DEF TypeOK, Mapped
<1>3. /\ g \in Frame /\ g.at = "destroy" /\ g.op = f.op /\ g.key = f.key /\ g.ref = f.ref
      /\ g.ep = f.ep /\ g.old = entry[f.ref]
    BY <1>1, <1>2 DEF Frame, At
<1> HIDE DEF g
<1>4. Place(t, g) /\ SameAdds(t, g)
    BY <1>0, <1>1, <1>2, <1>3 DEF Place, SameAdds, Adds
<1>5. /\ \A j \in Key : map'[j] # f.ref
      /\ \A u \in Thread : Adds(u) => thread[u].ep # g.ref /\ thread[u].ep # g.old
    BY <1>0, <1>1, <1>3 DEF Fresh, Erased
<1>6. Locked'
    <2>1. thread'[t] = g /\ \A u \in Thread : u # t => thread'[u] = thread[u]
        BY <1>0, <1>3, Going
    <2> QED
        BY <1>0, <1>3, <2>1, ServerFacts DEF Locked
<1>7. gone' \subseteq Ep /\ gone \subseteq gone'
    BY <1>0 DEF TypeOK
<1> HIDE DEF f
<1> QED
    BY <1>0, <1>1, <1>3, <1>4, <1>5, <1>6, <1>7, RemoveInv DEF f

LEMMA MatchLockFacts ==
    ASSUME TInv, NEW t \in Thread, MatchLock(t)
    PROVE  LET f == thread[t]
           IN  /\ t = Server /\ f \in Frame /\ f.key \in Key /\ f.op = "event" /\ f.ep \in gone
               /\ f.at = "matchLock" /\ map[f.key] = f.ref /\ f.ref \in Ep
               /\ \A j \in Key : map[j] = f.ref => j = f.key
               /\ mapLock' = None /\ UNCHANGED <<holder, live, keyOf, bound, gone, dropped>>
<1>0. /\ TypeOK /\ Mapped /\ Locked /\ Place(t, thread[t]) /\ thread[t].at = "matchLock"
      /\ mapLock' = None /\ UNCHANGED <<holder, live, keyOf, bound, gone, dropped>>
    BY DEF TInv, Where, MatchLock
<1>1. thread[t] \in Frame /\ thread[t].key \in Key /\ thread[t].op \in Op
    BY <1>0, FrameFacts
<1>2. t = Server /\ thread[t].op = "event" /\ thread[t].ep \in gone /\ thread[t].ref # None
    BY <1>0, <1>1 DEF Place, Op
<1>3. map[thread[t].key] = thread[t].ref /\ thread[t].ref \in Ep
    BY <1>0, <1>2, FrameFacts DEF Locked
<1>4. \A j \in Key : map[j] = thread[t].ref => j = thread[t].key
    BY <1>0, <1>1, <1>2, <1>3 DEF Mapped
<1> QED
    BY <1>0, <1>1, <1>2, <1>3, <1>4

LEMMA MatchLockInv ==
    ASSUME TInv, NEW t \in Thread, MatchLock(t)
    PROVE  TInv'
<1> DEFINE f == thread[t]
<1>0. TypeOK /\ Mapped /\ Fresh /\ Place(t, f)
    BY DEF TInv, Where
<1>1. /\ t = Server /\ f \in Frame /\ f.key \in Key /\ f.op = "event" /\ f.ep \in gone
      /\ f.at = "matchLock" /\ map[f.key] = f.ref /\ f.ref \in Ep
      /\ \A j \in Key : map[j] = f.ref => j = f.key
      /\ mapLock' = None /\ UNCHANGED <<holder, live, keyOf, bound, gone, dropped>>
    BY MatchLockFacts
<1>2. gone' \subseteq Ep /\ gone \subseteq gone'
    BY <1>0, <1>1 DEF TypeOK
<1>3. ASSUME NEW g \in Frame \cup {Idle}, thread' = [thread EXCEPT ![t] = g], g.at # "matchLock"
      PROVE  Locked'
    <2>1. thread'[t] = g
        BY <1>0, <1>3, Going
    <2> QED
        BY <1>1, <1>3, <2>1 DEF Locked
<1>4. CASE SameConn(f)
    <2> DEFINE g == [f EXCEPT !.at = "destroy", !.old = entry[f.ref]]
    <2>0. /\ map' = [map EXCEPT ![f.key] = None] /\ entry' = [entry EXCEPT ![f.ref] = None]
          /\ thread' = [thread EXCEPT ![t] = g]
        BY <1>0, <1>4 DEF MatchLock, TypeOK
    <2>1. entry[f.ref] \in Created \cup {None} /\ entry[f.ref] \in Ep \cup {None}
        BY <1>0, <1>1 DEF TypeOK, Mapped
    <2>2. /\ g \in Frame /\ g.at = "destroy" /\ g.op = f.op /\ g.key = f.key /\ g.ref = f.ref
          /\ g.ep = f.ep /\ g.old = entry[f.ref]
        BY <1>1, <2>1 DEF Frame, At
    <2>3. \A j \in Key : map'[j] # f.ref
        <3>1. f.ref # None
            BY <1>1, ServerFacts
        <3> QED
            BY <1>0, <1>1, <2>0, <3>1 DEF TypeOK
    <2> HIDE DEF g
    <2>4. Place(t, g) /\ SameAdds(t, g)
        BY <1>0, <1>1, <2>1, <2>2 DEF Place, SameAdds
    <2>5. \A u \in Thread : Adds(u) => thread[u].ep # g.ref /\ thread[u].ep # g.old
        BY <1>0, <1>1, <2>2 DEF Fresh
    <2>6. Locked'
        BY <1>3, <2>0, <2>2
    <2> QED
        BY <1>1, <1>2, <2>0, <2>2, <2>3, <2>4, <2>5, <2>6, RemoveInv
<1>5. CASE ~SameConn(f)
    <2>0. /\ map' = [map EXCEPT ![f.key] = None] \/ UNCHANGED map
          /\ thread' = [thread EXCEPT ![t] = Idle] /\ UNCHANGED entry
        BY <1>5 DEF MatchLock, Return
    <2>1. /\ Place(t, Idle) /\ SameAdds(t, Idle) /\ Idle \in Frame \cup {Idle} /\ Locked'
          /\ Idle.at # "unhook"
        BY <1>3, <2>0, IdleFacts DEF SameAdds
    <2>2. \A u \in Thread : Adds(u) => thread[u].ep # Idle.ref /\ thread[u].ep # Idle.old
        BY IdleFacts DEF Adds
    <2> QED
        BY <1>1, <1>2, <2>0, <2>1, <2>2, RemoveInv
<1> QED
    BY <1>4, <1>5

----------------------------------------------------------------------------
(***************************************************************************)
(* Type correctness                                                        *)
(***************************************************************************)
LEMMA InitTInv == Init => TInv
<1> SUFFICES ASSUME Init PROVE TInv
    OBVIOUS
<1>1. thread \in [Thread -> Frame \cup {Idle}] /\ \A t \in Thread : thread[t] = Idle
    BY DEF Init
<1>2. Created = {}
    BY DEF Init, Created
<1>3. TypeOK
    BY <1>1, MaxEpsAssumption DEF Init, TypeOK
<1>4. Where /\ Fresh /\ Erased
    BY <1>1, IdleFacts DEF Where, Fresh, Erased, Adds
<1>5. Mapped
    BY <1>2 DEF Init, Mapped
<1>6. Locked
    BY <1>1, IdleFacts, ServerFacts DEF Init, Locked
<1> QED
    BY <1>3, <1>4, <1>5, <1>6 DEF TInv

LEMMA StutterTInv ==
    ASSUME TInv, UNCHANGED vars
    PROVE  TInv'
<1>1. Created' = Created
    BY DEF vars, Created
<1>2. TypeOK' /\ Mapped' /\ Fresh' /\ Erased' /\ Locked'
    BY <1>1 DEF TInv, vars, TypeOK, Mapped, Fresh, Erased, Locked, Adds
<1>3. \A t, f : Place(t, f) => Place(t, f)'
    BY <1>1 DEF Place, vars
<1>4. Where'
    BY <1>3 DEF TInv, Where, vars
<1> QED
    BY <1>2, <1>4 DEF TInv

LEMMA NextTInv == TInv /\ [Next]_vars => TInv'
<1> SUFFICES ASSUME TInv, [Next]_vars PROVE TInv'
    OBVIOUS
<1>1. ASSUME NEW t \in App, NEW k \in Key, Call(t, k) PROVE TInv'
    BY <1>1, CallInv
<1>2. ASSUME NEW t \in Thread, Step(t) PROVE TInv'
    BY <1>2, LockEntryInv, FinishUseInv, DialInv, DialFailsInv, AddInv, EraseInv, UnhookInv,
       DestroyInv, MatchInv, MatchLockInv DEF Step
<1>3. ASSUME NEW k \in Key, Request(k) PROVE TInv'
    BY <1>3, RequestInv
<1>4. ASSUME NEW c \in Ep, PeerDrops(c) \/ Disconnected(c) PROVE TInv'
    BY <1>4, PeerDropsInv, DisconnectedInv
<1>5. CASE UNCHANGED vars
    BY <1>5, StutterTInv
<1> QED
    BY <1>1, <1>2, <1>3, <1>4, <1>5 DEF Next

LEMMA SpecTInv == Spec => []TInv
<1>1. TInv /\ [Next]_vars => TInv'
    BY NextTInv
<1> QED
    BY <1>1, InitTInv, PTL DEF Spec

\* The endpoint table is type-correct whatever the threads do: in particular
\* the listen thread alone ever keeps rdma_endpoint_map_mutex across a wait,
\* only application threads hold an entry, and every endpoint a call refers to
\* has been created (conn_manager.cpp).
THEOREM ConnTypeCorrect == Spec => []TypeOK
<1>1. TInv => TypeOK
    BY DEF TInv
<1> QED
    BY <1>1, SpecTInv, PTL

----------------------------------------------------------------------------
(***************************************************************************)
(* With one adder: steps that add nothing                                  *)
(***************************************************************************)
\* The frame adds an endpoint.
AddsAt(g) == g.op \in {"connect", "accept"} /\ g.ep # None

\* What Using, Dying and Free say of one thread.
FrameOK(t, g) ==
    /\ g.at = "use" => g.ep # None /\ holder[g.ref] = t /\ entry[g.ref] = g.ep
    /\ g.at = "destroy" /\ g.old # None => entry[g.old] = None
    /\ g.op = "connect" => map[g.key] = None \/ (g.at = "lock" /\ map[g.key] = g.ref)
    /\ g.op = "accept" /\ g.at # "erase" => map[g.key] = None

LEMMA FrameOKs == (\A t \in Thread : FrameOK(t, thread[t])) <=> Using /\ Dying /\ Free
BY DEF FrameOK, Using, Dying, Free

\* A step that adds no endpoint keeps the invariant when what it removes from
\* the map is no key's newest connection, and nobody is using what it removes
\* from an entry.
LEMMA SafeStep ==
    ASSUME TInv, SInv, NEW t \in Thread, NEW g \in Frame \cup {Idle}, thread' = [thread EXCEPT ![t] = g],
           UNCHANGED keyOf, gone \subseteq gone',
           \A e \in Ep : entry'[e] \in {entry[e], None} /\ (entry'[e] # None => e \in live'),
           \A k \in Key : map'[k] \in {map[k], None},
           \A u \in Thread : Adds(u) => thread[u].ep \in live',
           \A u \in Thread : u # t /\ thread[u].at = "use" =>
               holder'[thread[u].ref] = u /\ entry'[thread[u].ref] = entry[thread[u].ref],
           FrameOK(t, g)',
           AddsAt(g) <=> Adds(t), AddsAt(g) => g.ep = thread[t].ep /\ g.key = thread[t].key,
           \A k \in Key, c \in Ep : map'[k] # map[k] /\ Newest(k, c) /\ c \notin gone' =>
               \E u \in Thread : Adds(u) /\ thread[u].ep = c
    PROVE  SInv'
<1>0. /\ TypeOK /\ Where /\ Own /\ AddsNewest /\ Reachable
      /\ \A u \in Thread : FrameOK(u, thread[u])
    BY FrameOKs DEF TInv, SInv
<1>1. /\ thread' \in [Thread -> Frame \cup {Idle}] /\ thread'[t] = g
      /\ \A u \in Thread : u # t => thread'[u] = thread[u]
    BY <1>0, Going
<1>2. Created' = Created /\ \A k, c : Newest(k, c)' <=> Newest(k, c)
    BY DEF Created, Newest
<1>3. \A u \in Thread : /\ Adds(u)' <=> Adds(u)
                        /\ Adds(u) => thread'[u].ep = thread[u].ep /\ thread'[u].key = thread[u].key
    BY <1>1 DEF Adds, AddsAt
<1>4. Own'
    BY <1>0, <1>3 DEF Own
<1>5. ASSUME NEW u \in Thread, u # t
      PROVE  FrameOK(u, thread[u])'
    <2>1. thread'[u] = thread[u] /\ FrameOK(u, thread[u])
        BY <1>0, <1>1, <1>5
    <2>2. thread[u].old \in Ep \cup {None} /\ (thread[u].at # "idle" => thread[u].key \in Key)
        BY <1>0, FrameFacts
    <2>3. thread[u].op \in {"connect", "accept"} => thread[u].at # "idle"
        BY <1>0 DEF Where, Place
    <2> DEFINE h == thread[u]
    <2>4. h.at = "use" => h.ep # None /\ holder'[h.ref] = u /\ entry'[h.ref] = h.ep
        BY <1>5, <2>1 DEF FrameOK
    <2>5. h.at = "destroy" /\ h.old # None => entry'[h.old] = None
        BY <2>1, <2>2 DEF FrameOK
    <2>6. /\ h.op = "connect" => map'[h.key] = None \/ (h.at = "lock" /\ map'[h.key] = h.ref)
          /\ h.op = "accept" /\ h.at # "erase" => map'[h.key] = None
        BY <2>1, <2>2, <2>3 DEF FrameOK
    <2> QED
        BY <2>1, <2>4, <2>5, <2>6 DEF FrameOK
<1>6. Using' /\ Dying' /\ Free'
    <2>1. FrameOK(t, thread[t])'
        BY <1>1 DEF FrameOK
    <2>2. \A u \in Thread : FrameOK(u, thread[u])'
        BY <1>5, <2>1
    <2> QED
        BY <2>2 DEF FrameOK, Using, Dying, Free
<1>7. AddsNewest'
    BY <1>0, <1>2, <1>3 DEF AddsNewest
<1>8. Reachable'
    <2> SUFFICES ASSUME NEW k \in Key, NEW c \in Ep, Newest(k, c), c \notin gone',
                        \A u \in Thread : Adds(u) => thread[u].ep # c
                 PROVE  map'[k] = c
        BY <1>2, <1>3 DEF Reachable
    <2> QED
        BY <1>0 DEF Reachable
<1> QED
    BY <1>4, <1>6, <1>7, <1>8 DEF SInv

\* The same for a step that leaves the map, the entries and live alone.
LEMMA SafeQuiet ==
    ASSUME TInv, SInv, NEW t \in Thread, NEW g \in Frame \cup {Idle}, thread' = [thread EXCEPT ![t] = g],
           UNCHANGED <<map, entry, live, keyOf, gone>>,
           \A u \in Thread : u # t /\ thread[u].at = "use" => holder'[thread[u].ref] = u,
           FrameOK(t, g)',
           AddsAt(g) <=> Adds(t), AddsAt(g) => g.ep = thread[t].ep /\ g.key = thread[t].key
    PROVE  SInv'
<1>1. Own
    BY DEF SInv
<1> QED
    BY <1>1, SafeStep DEF Own

LEMMA Holders ==
    ASSUME SInv
    PROVE  \A u \in Thread : thread[u].at = "use" => holder[thread[u].ref] = u
BY DEF SInv, Using

\* A call that adds nothing returns.
LEMMA SafeReturn ==
    ASSUME TInv, SInv, NEW t \in Thread, Return(t), ~Adds(t), UNCHANGED <<map, entry, live, keyOf, gone>>,
           \A u \in Thread : u # t /\ thread[u].at = "use" => holder'[thread[u].ref] = u
    PROVE  SInv'
<1>1. thread' = [thread EXCEPT ![t] = Idle] /\ Idle \in Frame \cup {Idle}
    BY IdleFacts DEF Return
<1>2. FrameOK(t, Idle)' /\ ~AddsAt(Idle)
    BY IdleFacts DEF FrameOK, AddsAt
<1> QED
    BY <1>1, <1>2, SafeQuiet

LEMMA CallSafe ==
    ASSUME TInv, SInv, NEW t \in App, NEW k \in Key, Call(t, k)
    PROVE  SInv'
<1>0. /\ TypeOK /\ Mapped /\ t \in Thread /\ thread[t] = Idle /\ ~Adds(t)
      /\ UNCHANGED <<map, entry, holder, live, keyOf, gone>>
    BY ServerFacts, IdleFacts DEF TInv, Call, Lookup, ConnectNew, Adds
<1>1. ASSUME NEW op \in {"use", "connect", "disconnect"}, Lookup(t, op, k)
      PROVE  SInv'
    <2>1. map[k] \in Ep
        BY <1>0, <1>1 DEF Lookup, TypeOK
    <2>2. \E g \in Frame : /\ g.at = "lock" /\ g.op = op /\ g.key = k /\ g.ref = map[k]
                            /\ g.ep = None /\ g.old = None /\ thread' = [thread EXCEPT ![t] = g]
        BY <1>1, <2>1 DEF Lookup, Frame, At, Op
    <2>3. PICK g \in Frame : /\ g.at = "lock" /\ g.op = op /\ g.key = k /\ g.ref = map[k]
                             /\ g.ep = None /\ g.old = None /\ thread' = [thread EXCEPT ![t] = g]
        BY <2>2
    <2>4. FrameOK(t, g)' /\ ~AddsAt(g)
        BY <1>0, <2>3 DEF FrameOK, AddsAt
    <2> QED
        BY <1>0, <2>3, <2>4, Holders, SafeQuiet
<1>2. CASE ConnectNew(t, k)
    <2> DEFINE g == [at |-> "dial", op |-> "connect", key |-> k, ref |-> None, ep |-> None,
                     old |-> None]
    <2>2. /\ g \in Frame /\ g.at = "dial" /\ g.op = "connect" /\ g.key = k /\ g.ref = None
          /\ g.ep = None /\ g.old = None
        BY DEF Frame, At, Op
    <2>3. thread' = [thread EXCEPT ![t] = g] /\ map[k] = None
        BY <1>2 DEF ConnectNew
    <2> HIDE DEF g
    <2>4. FrameOK(t, g)' /\ ~AddsAt(g)
        BY <1>0, <2>2, <2>3 DEF FrameOK, AddsAt
    <2> QED
        BY <1>0, <2>2, <2>3, <2>4, Holders, SafeQuiet
<1> QED
    BY <1>1, <1>2 DEF Call

LEMMA LockEntrySafe ==
    ASSUME TInv, SInv, NEW t \in Thread, LockEntry(t)
    PROVE  SInv'
<1>0. /\ TypeOK /\ Mapped /\ Place(t, thread[t]) /\ thread[t].at = "lock"
      /\ thread[t] \in Frame /\ thread[t].ref \in Ep /\ holder[thread[t].ref] = None
      /\ UNCHANGED <<map, entry, live, keyOf, gone>>
    BY FrameFacts DEF TInv, Where, LockEntry, Place
<1>a. ~Adds(t) /\ thread[t].key \in Key /\ thread[t].op \in Op
    BY <1>0, FrameFacts DEF Place, Adds
<1>1. CASE /\ thread[t].op = "use" /\ entry[thread[t].ref] # None
           /\ holder' = [holder EXCEPT ![thread[t].ref] = t]
           /\ thread' = [thread EXCEPT ![t].at = "use", ![t].ep = entry[thread[t].ref]]
    <2>1. entry[thread[t].ref] \in Ep /\ holder \in [Ep -> App \cup {None}]
        BY <1>0, <1>1 DEF TypeOK
    <2>2. \E g \in Frame : /\ g.at = "use" /\ g.op = "use" /\ g.ref = thread[t].ref
                           /\ g.ep = entry[thread[t].ref] /\ thread' = [thread EXCEPT ![t] = g]
        <3> DEFINE g == [thread[t] EXCEPT !.at = "use", !.ep = entry[thread[t].ref]]
        <3>1. /\ g \in Frame /\ g.at = "use" /\ g.op = "use" /\ g.ref = thread[t].ref
              /\ g.ep = entry[thread[t].ref]
            BY <1>0, <1>1, <2>1 DEF Frame, At
        <3>2. thread' = [thread EXCEPT ![t] = g]
            BY <1>0, <1>1 DEF TypeOK
        <3> HIDE DEF g
        <3> QED
            BY <3>1, <3>2
    <2>3. PICK g \in Frame : /\ g.at = "use" /\ g.op = "use" /\ g.ref = thread[t].ref
                             /\ g.ep = entry[thread[t].ref] /\ thread' = [thread EXCEPT ![t] = g]
        BY <2>2
    <2>4. FrameOK(t, g)' /\ ~AddsAt(g)
        BY <1>0, <1>1, <2>1, <2>3 DEF FrameOK, AddsAt
    <2>5. \A u \in Thread : u # t /\ thread[u].at = "use" => holder'[thread[u].ref] = u
        BY <1>0, <1>1, <2>1, Holders, ServerFacts
    <2> QED
        BY <1>0, <1>a, <2>3, <2>4, <2>5, SafeQuiet
<1>2. CASE Return(t) /\ UNCHANGED holder
    BY <1>0, <1>a, <1>2, Holders, SafeReturn
<1>3. ASSUME NEW at \in At, Goto(t, at), UNCHANGED holder,
             \/ thread[t].op = "connect" /\ at = "dial" /\ entry[thread[t].ref] = None
             \/ thread[t].op = "disconnect" /\ at = "erase"
      PROVE  SInv'
    <2>1. PICK g \in Frame : /\ thread' = [thread EXCEPT ![t] = g]
                             /\ g.at = at /\ g.op = thread[t].op /\ g.key = thread[t].key
                             /\ g.ref = thread[t].ref /\ g.ep = thread[t].ep /\ g.old = thread[t].old
        BY <1>0, <1>3, GoingTo
    <2>2. thread[t].op = "connect" => map[thread[t].key] = None \/ map[thread[t].key] = thread[t].ref
        BY DEF SInv, Free
    <2>3. thread[t].op = "connect" => map[thread[t].key] = None
        BY <1>0, <1>a, <1>3, <2>2 DEF Mapped
    <2>4. FrameOK(t, g)' /\ ~AddsAt(g)
        BY <1>0, <1>a, <1>3, <2>1, <2>3 DEF FrameOK, AddsAt, Adds
    <2> QED
        BY <1>0, <1>a, <1>3, <2>1, <2>4, Holders, SafeQuiet
<1>4. "dial" \in At /\ "erase" \in At
    BY DEF At
<1> QED
    BY <1>1, <1>2, <1>3, <1>4 DEF LockEntry

LEMMA FinishUseSafe ==
    ASSUME TInv, SInv, NEW t \in Thread, FinishUse(t)
    PROVE  SInv'
<1>0. /\ TypeOK /\ Place(t, thread[t]) /\ thread[t].at = "use" /\ Return(t)
      /\ holder' = [holder EXCEPT ![thread[t].ref] = None]
      /\ UNCHANGED <<map, entry, live, keyOf, gone>>
    BY DEF TInv, Where, FinishUse
<1>1. ~Adds(t)
    BY <1>0 DEF Place, Adds
<1>2. holder[thread[t].ref] = t
    BY <1>0, Holders
<1>3. \A u \in Thread : u # t /\ thread[u].at = "use" => holder'[thread[u].ref] = u
    BY <1>0, <1>2, Holders DEF TypeOK
<1> QED
    BY <1>0, <1>1, <1>3, SafeReturn

LEMMA DialFailsSafe ==
    ASSUME TInv, SInv, NEW t \in Thread, DialFails(t)
    PROVE  SInv'
<1>0. /\ Place(t, thread[t]) /\ thread[t].at = "dial" /\ Return(t)
      /\ UNCHANGED <<map, entry, holder, live, keyOf, gone>>
    BY DEF TInv, Where, DialFails
<1>1. ~Adds(t)
    BY <1>0 DEF Place, Adds
<1> QED
    BY <1>0, <1>1, Holders, SafeReturn

LEMMA MatchSafe ==
    ASSUME TInv, SInv, NEW t \in Thread, Match(t)
    PROVE  SInv'
<1>0. /\ TypeOK /\ Place(t, thread[t]) /\ thread[t].at = "match" /\ thread[t] \in Frame
      /\ thread[t].key \in Key /\ thread[t].op \in Op
      /\ UNCHANGED <<map, entry, holder, live, keyOf, gone>>
    BY FrameFacts DEF TInv, Where, Match
<1>1. ~Adds(t) /\ thread[t].op = "event"
    BY <1>0 DEF Place, Adds, Op
<1>2. CASE Return(t)
    BY <1>0, <1>1, <1>2, Holders, SafeReturn
<1>3. CASE /\ map[thread[t].key] # None
           /\ thread' = [thread EXCEPT ![t].at = "matchLock", ![t].ref = map[thread[t].key]]
    <2>1. \E g \in Frame : g.at = "matchLock" /\ g.op = "event" /\ thread' = [thread EXCEPT ![t] = g]
        <3> DEFINE g == [thread[t] EXCEPT !.at = "matchLock", !.ref = map[thread[t].key]]
        <3>1. g \in Frame /\ g.at = "matchLock" /\ g.op = "event"
            BY <1>0, <1>1, <1>3 DEF Frame, At, TypeOK
        <3>2. thread' = [thread EXCEPT ![t] = g]
            BY <1>0, <1>3 DEF TypeOK
        <3> HIDE DEF g
        <3> QED
            BY <3>1, <3>2
    <2>2. PICK g \in Frame : g.at = "matchLock" /\ g.op = "event" /\ thread' = [thread EXCEPT ![t] = g]
        BY <2>1
    <2>3. FrameOK(t, g)' /\ ~AddsAt(g)
        BY <2>2 DEF FrameOK, AddsAt
    <2> QED
        BY <1>0, <1>1, <2>2, <2>3, Holders, SafeQuiet
<1> QED
    BY <1>2, <1>3 DEF Match

LEMMA DisconnectedSafe ==
    ASSUME TInv, SInv, NEW c \in Ep, Disconnected(c)
    PROVE  SInv'
<1>0. /\ TypeOK /\ Mapped /\ thread[Server] = Idle /\ c \in bound /\ ~Adds(Server)
      /\ UNCHANGED <<map, entry, holder, live, keyOf, gone>>
    BY IdleFacts DEF TInv, Disconnected, Adds
<1>1. keyOf[c] \in Key
    BY <1>0, CreatedFacts DEF Mapped
<1>2. \E g \in Frame : g.at = "match" /\ g.op = "event" /\ thread' = [thread EXCEPT ![Server] = g]
    BY <1>1 DEF Disconnected, Frame, At, Op
<1>3. PICK g \in Frame : g.at = "match" /\ g.op = "event" /\ thread' = [thread EXCEPT ![Server] = g]
    BY <1>2
<1>4. FrameOK(Server, g)' /\ ~AddsAt(g)
    BY <1>3 DEF FrameOK, AddsAt
<1> QED
    BY <1>0, <1>3, <1>4, ServerFacts, Holders, SafeQuiet

LEMMA PeerDropsSafe ==
    ASSUME SInv, NEW c \in Ep, PeerDrops(c)
    PROVE  SInv'
<1>0. gone \subseteq gone' /\ UNCHANGED <<map, mapLock, entry, holder, live, keyOf, bound, thread>>
    BY DEF PeerDrops
<1>1. Created' = Created /\ \A k, d : Newest(k, d)' <=> Newest(k, d)
    BY <1>0 DEF Created, Newest
<1>2. \A u \in Thread : Adds(u)' <=> Adds(u)
    BY <1>0 DEF Adds
<1>3. Own' /\ AddsNewest'
    BY <1>0, <1>1, <1>2 DEF SInv, Own, AddsNewest
<1>4. Using' /\ Dying' /\ Free'
    BY <1>0 DEF SInv, Using, Dying, Free
<1>5. Reachable'
    BY <1>0, <1>1, <1>2 DEF SInv, Reachable
<1> QED
    BY <1>3, <1>4, <1>5 DEF SInv

\* What follows a removal: the thread adds what it was going to add, or returns.
LEMMA RemovedTo ==
    ASSUME TInv, NEW t \in Thread, Removed(t), thread[t].at \in {"erase", "destroy"},
           thread[t].op = "accept" => map'[thread[t].key] = None
    PROVE  \E g \in Frame \cup {Idle} :
               /\ thread' = [thread EXCEPT ![t] = g] /\ FrameOK(t, g)'
               /\ AddsAt(g) <=> Adds(t) /\ (AddsAt(g) => g.ep = thread[t].ep /\ g.key = thread[t].key)
<1>0. TypeOK /\ Place(t, thread[t])
    BY DEF TInv, Where
<1>1. CASE thread[t].op = "accept"
    <2>1. Goto(t, "add") /\ "add" \in At
        BY <1>1 DEF Removed, At
    <2>2. PICK g \in Frame : /\ thread' = [thread EXCEPT ![t] = g]
                             /\ g.at = "add" /\ g.op = thread[t].op /\ g.key = thread[t].key
                             /\ g.ref = thread[t].ref /\ g.ep = thread[t].ep /\ g.old = thread[t].old
        BY <1>0, <2>1, GoingTo
    <2>3. FrameOK(t, g)'
        BY <1>1, <2>2 DEF FrameOK
    <2>4. AddsAt(g) <=> Adds(t)
        BY <2>2 DEF AddsAt, Adds
    <2> QED
        BY <2>2, <2>3, <2>4
<1>2. CASE thread[t].op # "accept"
    <2>1. thread' = [thread EXCEPT ![t] = Idle]
        BY <1>2 DEF Removed, Return
    <2>2. FrameOK(t, Idle)' /\ ~AddsAt(Idle)
        BY IdleFacts DEF FrameOK, AddsAt
    <2>3. ~Adds(t)
        BY <1>0, <1>2 DEF Adds, Place
    <2> QED
        BY <2>1, <2>2, <2>3, IdleFacts
<1> QED
    BY <1>1, <1>2

LEMMA DestroySafe ==
    ASSUME TInv, SInv, NEW t \in Thread, Destroy(t)
    PROVE  SInv'
<1>0. /\ TypeOK /\ Fresh /\ Own /\ Dying /\ Free /\ thread[t].at = "destroy" /\ Removed(t)
      /\ live' = live \ {thread[t].old} /\ UNCHANGED <<map, entry, holder, keyOf, gone>>
    BY DEF TInv, SInv, Destroy
<1>1. thread[t].op = "accept" => map'[thread[t].key] = None
    BY <1>0 DEF Free
<1>2. PICK g \in Frame \cup {Idle} :
          /\ thread' = [thread EXCEPT ![t] = g] /\ FrameOK(t, g)'
          /\ AddsAt(g) <=> Adds(t) /\ (AddsAt(g) => g.ep = thread[t].ep /\ g.key = thread[t].key)
    BY <1>0, <1>1, RemovedTo
<1>3. \A e \in Ep : entry'[e] \in {entry[e], None} /\ (entry'[e] # None => e \in live')
    BY <1>0, ServerFacts DEF Own, Dying
<1>4. \A u \in Thread : Adds(u) => thread[u].ep \in live'
    BY <1>0 DEF Own, Fresh
<1>5. /\ \A k \in Key : map'[k] \in {map[k], None}
      /\ \A u \in Thread : u # t /\ thread[u].at = "use" =>
             holder'[thread[u].ref] = u /\ entry'[thread[u].ref] = entry[thread[u].ref]
      /\ \A k \in Key, c \in Ep : map'[k] # map[k] /\ Newest(k, c) /\ c \notin gone' =>
             \E u \in Thread : Adds(u) /\ thread[u].ep = c
    BY <1>0, Holders
<1> QED
    BY <1>0, <1>2, <1>3, <1>4, <1>5, SafeStep

\* The endpoint in the entry of a key is the entry's own.
LEMMA MappedOwn ==
    ASSUME TInv, SInv, NEW k \in Key, map[k] # None
    PROVE  map[k] \in Ep /\ entry[map[k]] = map[k]
<1>1. map[k] \in Ep /\ entry[map[k]] # None
    BY DEF TInv, TypeOK, Mapped
<1> QED
    BY <1>1 DEF SInv, Own

\* A key has one newest endpoint.
LEMMA NewestOne ==
    ASSUME TypeOK, NEW k \in Key, NEW c, NEW d, Newest(k, c), Newest(k, d)
    PROVE  c = d
<1>1. c \in Nat /\ d \in Nat /\ c <= d /\ d <= c
    BY CreatedFacts DEF Newest
<1> QED
    BY <1>1

LEMMA EraseSafe ==
    ASSUME TInv, SInv, NEW t \in Thread, Erase(t)
    PROVE  SInv'
<1> DEFINE f == thread[t]
<1>0. /\ TypeOK /\ Mapped /\ Fresh /\ Place(t, f) /\ f.at = "erase"
      /\ Own /\ AddsNewest /\ Reachable
      /\ UNCHANGED <<entry, holder, live, keyOf>>
    BY DEF TInv, SInv, Where, Erase
<1>1. f \in Frame /\ f.key \in Key /\ f.op \in {"disconnect", "accept"}
    BY <1>0, FrameFacts DEF Place, Op
<1>2. CASE map[f.key] = None
    <2>1. Removed(t) /\ UNCHANGED <<map, gone>>
        BY <1>2 DEF Erase
    <2>2. PICK g \in Frame \cup {Idle} :
              /\ thread' = [thread EXCEPT ![t] = g] /\ FrameOK(t, g)'
              /\ AddsAt(g) <=> Adds(t) /\ (AddsAt(g) => g.ep = thread[t].ep /\ g.key = thread[t].key)
        BY <1>0, <1>2, <2>1, RemovedTo
    <2> QED
        BY <1>0, <2>1, <2>2, Holders, SafeQuiet
<1>3. CASE map[f.key] # None
    <2> DEFINE e == map[f.key]
    <2>0. /\ map' = [map EXCEPT ![f.key] = None]
          /\ gone' = IF f.op = "disconnect" THEN gone \cup {entry[e]} ELSE gone
        BY <1>3 DEF Erase
    <2>1. e \in Ep /\ entry[e] = e
        BY <1>1, <1>3, MappedOwn
    <2>2. \E g \in Frame : /\ thread' = [thread EXCEPT ![t] = g]
                           /\ g.at = "unhook" /\ g.op = f.op /\ g.key = f.key /\ g.ep = f.ep
        <3> DEFINE g == [f EXCEPT !.at = "unhook", !.ref = e]
        <3>1. g \in Frame /\ g.at = "unhook" /\ g.op = f.op /\ g.key = f.key /\ g.ep = f.ep
            BY <1>1, <2>1 DEF Frame, At
        <3>2. thread' = [thread EXCEPT ![t] = g]
            BY <1>0, <1>3 DEF TypeOK, Erase
        <3> HIDE DEF g
        <3> QED
            BY <3>1, <3>2
    <2>3. PICK g \in Frame : /\ thread' = [thread EXCEPT ![t] = g]
                             /\ g.at = "unhook" /\ g.op = f.op /\ g.key = f.key /\ g.ep = f.ep
        BY <2>2
    <2>4. /\ \A k \in Key : map'[k] \in {map[k], None} /\ (map'[k] # map[k] => k = f.key)
          /\ map'[f.key] = None
        BY <1>0, <1>1, <2>0 DEF TypeOK
    <2>5. FrameOK(t, g)'
        BY <1>1, <2>3, <2>4 DEF FrameOK
    <2>6. AddsAt(g) <=> Adds(t)
        BY <2>3 DEF AddsAt, Adds
    <2>7. \A c \in Ep : Newest(f.key, c) /\ c \notin gone' => \E u \in Thread : Adds(u) /\ thread[u].ep = c
        <3> SUFFICES ASSUME NEW c \in Ep, Newest(f.key, c), c \notin gone'
                     PROVE  \E u \in Thread : Adds(u) /\ thread[u].ep = c
            OBVIOUS
        <3>1. CASE f.op = "accept"
            <4>1. Adds(t)
                BY <1>0, <3>1 DEF Place, Adds
            <4>2. Newest(f.key, f.ep)
                BY <1>0, <4>1 DEF AddsNewest
            <4>3. f.ep = c
                BY <1>0, <1>1, <4>2, NewestOne
            <4> QED
                BY <4>1, <4>3
        <3>2. CASE f.op = "disconnect"
            <4>1. c # e /\ c \notin gone
                BY <2>0, <2>1, <3>2
            <4> QED
                BY <1>0, <1>1, <4>1 DEF Reachable
        <3> QED
            BY <1>1, <3>1, <3>2
    <2>8. gone \subseteq gone'
        BY <2>0
    <2>9. /\ \A d \in Ep : entry'[d] \in {entry[d], None} /\ (entry'[d] # None => d \in live')
          /\ \A u \in Thread : Adds(u) => thread[u].ep \in live'
          /\ \A u \in Thread : u # t /\ thread[u].at = "use" =>
                 holder'[thread[u].ref] = u /\ entry'[thread[u].ref] = entry[thread[u].ref]
        BY <1>0, Holders DEF Own
    <2>10. \A k \in Key, c \in Ep : map'[k] # map[k] /\ Newest(k, c) /\ c \notin gone' =>
               \E u \in Thread : Adds(u) /\ thread[u].ep = c
        BY <2>4, <2>7
    <2> QED
        BY <1>0, <2>3, <2>4, <2>5, <2>6, <2>8, <2>9, <2>10, SafeStep
<1> QED
    BY <1>2, <1>3

\* Nobody is using an entry that is not locked.
LEMMA NotInUse ==
    ASSUME TInv, SInv, NEW r \in Ep, holder[r] = None, entry' = [entry EXCEPT ![r] = None],
           UNCHANGED holder
    PROVE  /\ \A u \in Thread : thread[u].at = "use" =>
                  holder'[thread[u].ref] = u /\ entry'[thread[u].ref] = entry[thread[u].ref]
           /\ \A e \in Ep : entry'[e] \in {entry[e], None}
           /\ entry'[r] = None
           /\ entry[r] # None => entry[r] = r
<1>1. entry \in [Ep -> Ep \cup {None}] /\ Own
    BY DEF TInv, SInv, TypeOK
<1>2. \A u \in Thread : thread[u].at = "use" => thread[u].ref # r
    BY Holders, ServerFacts
<1> QED
    BY <1>1, <1>2, Holders DEF Own

LEMMA UnhookSafe ==
    ASSUME TInv, SInv, NEW t \in Thread, Unhook(t)
    PROVE  SInv'
<1> DEFINE f == thread[t]
<1>0. /\ TypeOK /\ Place(t, f) /\ f.at = "unhook" /\ Own /\ Free /\ holder[f.ref] = None
      /\ entry' = [entry EXCEPT ![f.ref] = None]
      /\ UNCHANGED <<map, holder, live, keyOf, gone>>
    BY DEF TInv, SInv, Where, Unhook
<1>1. f \in Frame /\ f.ref \in Ep /\ f.op \in {"disconnect", "accept"}
    BY <1>0, FrameFacts DEF Place, Op
<1>2. \E g \in Frame : /\ thread' = [thread EXCEPT ![t] = g] /\ g.at = "destroy" /\ g.op = f.op
                       /\ g.key = f.key /\ g.ep = f.ep /\ g.old = entry[f.ref]
    <2> DEFINE g == [f EXCEPT !.at = "destroy", !.old = entry[f.ref]]
    <2>1. /\ g \in Frame /\ g.at = "destroy" /\ g.op = f.op /\ g.key = f.key /\ g.ep = f.ep
          /\ g.old = entry[f.ref]
        BY <1>0, <1>1 DEF Frame, At, TypeOK
    <2>2. thread' = [thread EXCEPT ![t] = g]
        BY <1>0 DEF TypeOK, Unhook
    <2> HIDE DEF g
    <2> QED
        BY <2>1, <2>2
<1>3. PICK g \in Frame : /\ thread' = [thread EXCEPT ![t] = g] /\ g.at = "destroy" /\ g.op = f.op
                         /\ g.key = f.key /\ g.ep = f.ep /\ g.old = entry[f.ref]
    BY <1>2
<1>4. /\ \A u \in Thread : thread[u].at = "use" =>
             holder'[thread[u].ref] = u /\ entry'[thread[u].ref] = entry[thread[u].ref]
      /\ \A e \in Ep : entry'[e] \in {entry[e], None}
      /\ entry'[f.ref] = None
      /\ entry[f.ref] # None => entry[f.ref] = f.ref
    BY <1>0, <1>1, NotInUse
<1>5. FrameOK(t, g)'
    BY <1>0, <1>1, <1>3, <1>4 DEF FrameOK, Free
<1>6. AddsAt(g) <=> Adds(t)
    BY <1>3 DEF AddsAt, Adds
<1>7. /\ \A e \in Ep : entry'[e] # None => e \in live'
      /\ \A u \in Thread : Adds(u) => thread[u].ep \in live'
    BY <1>0, <1>4 DEF Own
<1> QED
    BY <1>0, <1>3, <1>4, <1>5, <1>6, <1>7, SafeStep

LEMMA MatchLockSafe ==
    ASSUME TInv, SInv, NEW t \in Thread, MatchLock(t)
    PROVE  SInv'
<1> DEFINE f == thread[t]
<1>0. TypeOK /\ Mapped /\ Own /\ Reachable /\ holder[f.ref] = None
    BY DEF TInv, SInv, MatchLock
<1>1. /\ f \in Frame /\ f.key \in Key /\ f.op = "event" /\ f.ep \in gone
      /\ map[f.key] = f.ref /\ f.ref \in Ep
      /\ UNCHANGED <<holder, live, keyOf, gone>>
    BY MatchLockFacts
<1>2. entry[f.ref] = f.ref /\ f.ref # None /\ ~Adds(t)
    BY <1>1, MappedOwn, ServerFacts DEF Adds
<1>3. CASE SameConn(f)
    <2>0. map' = [map EXCEPT ![f.key] = None] /\ entry' = [entry EXCEPT ![f.ref] = None]
        BY <1>3 DEF MatchLock
    <2>1. \E g \in Frame : /\ thread' = [thread EXCEPT ![t] = g] /\ g.at = "destroy"
                           /\ g.op = "event" /\ g.old = f.ref
        <3> DEFINE g == [f EXCEPT !.at = "destroy", !.old = f.ref]
        <3>1. g \in Frame /\ g.at = "destroy" /\ g.op = "event" /\ g.old = f.ref
            BY <1>1 DEF Frame, At
        <3>2. thread' = [thread EXCEPT ![t] = g]
            BY <1>0, <1>2, <1>3 DEF TypeOK, MatchLock
        <3> HIDE DEF g
        <3> QED
            BY <3>1, <3>2
    <2>2. PICK g \in Frame : /\ thread' = [thread EXCEPT ![t] = g] /\ g.at = "destroy"
                             /\ g.op = "event" /\ g.old = f.ref
        BY <2>1
    <2>3. /\ \A u \in Thread : thread[u].at = "use" =>
                 holder'[thread[u].ref] = u /\ entry'[thread[u].ref] = entry[thread[u].ref]
          /\ \A e \in Ep : entry'[e] \in {entry[e], None}
          /\ entry'[f.ref] = None
        BY <1>0, <1>1, <2>0, NotInUse
    <2>4. FrameOK(t, g)' /\ ~AddsAt(g)
        BY <2>2, <2>3 DEF FrameOK, AddsAt
    <2>5. \A k \in Key : map'[k] \in {map[k], None} /\ (map'[k] # map[k] => k = f.key)
        BY <1>0, <1>1, <2>0 DEF TypeOK
    <2>6. f.ref \in gone
        BY <1>1, <1>2, <1>3 DEF SameConn
    <2>7. \A k \in Key, c \in Ep : map'[k] # map[k] /\ Newest(k, c) /\ c \notin gone' =>
               \E u \in Thread : Adds(u) /\ thread[u].ep = c
        BY <1>0, <1>1, <2>5, <2>6 DEF Reachable
    <2>8. /\ \A e \in Ep : entry'[e] # None => e \in live'
          /\ \A u \in Thread : Adds(u) => thread[u].ep \in live'
        BY <1>0, <1>1, <2>3 DEF Own
    <2> QED
        BY <1>1, <1>2, <2>2, <2>3, <2>4, <2>5, <2>7, <2>8, SafeStep
<1>4. CASE ~SameConn(f)
    <2>1. Return(t) /\ UNCHANGED <<map, entry>>
        BY <1>2, <1>4 DEF MatchLock
    <2> QED
        BY <1>1, <1>2, <2>1, Holders, SafeReturn
<1> QED
    BY <1>3, <1>4

----------------------------------------------------------------------------
(***************************************************************************)
(* With one adder: creating and adding an endpoint                         *)
(***************************************************************************)
\* Two threads that are establishing a connection have different peers.
LEMMA OneAdds ==
    ASSUME OneAdder, TInv, NEW t \in Thread, NEW u \in Thread,
           \/ thread[t].op = "connect" /\ t \in Connector /\ "client" \in Role[thread[t].key]
           \/ thread[t].op = "accept" /\ t = Server /\ "server" \in Role[thread[t].key],
           thread[u].op \in {"connect", "accept"}, thread[u].key = thread[t].key
    PROVE  u = t
<1>1. /\ Role[thread[t].key] # {"client", "server"} /\ \A v, w \in Connector : v = w
      /\ Role[thread[t].key] \subseteq {"client", "server"}
    <2>1. thread[t].key \in Key
        BY FrameFacts DEF TInv, Where, Place
    <2> QED
        BY <2>1, RoleAssumption DEF OneAdder
<1>2. \/ thread[u].op = "connect" /\ u \in Connector /\ "client" \in Role[thread[u].key]
      \/ thread[u].op = "accept" /\ u = Server /\ "server" \in Role[thread[u].key]
    BY DEF TInv, Where, Place
<1> QED
    BY <1>1, <1>2

LEMMA CreateSafe ==
    ASSUME OneAdder, TInv, SInv, NEW t \in Thread, NEW op \in Op, NEW at \in At, NEW k \in Key,
           Create(t, op, at, k), ~Adds(t),
           \/ op = "connect" /\ at = "add" /\ t \in Connector /\ "client" \in Role[k] /\ map[k] = None
           \/ op = "accept" /\ at = "erase" /\ t = Server /\ "server" \in Role[k],
           UNCHANGED <<map, entry, holder, gone>>, TInv'
    PROVE  SInv'
<1>c. PICK c : c = NewEp
    OBVIOUS
<1>0. /\ TypeOK /\ Mapped /\ Fresh /\ Own /\ AddsNewest /\ Reachable
      /\ \A u \in Thread : FrameOK(u, thread[u])
    BY FrameOKs DEF TInv, SInv
<1>1. /\ c \in Ep /\ c \notin Created /\ Created' = Created \cup {c}
      /\ \A d \in Created : keyOf'[d] = keyOf[d] /\ d <= c
      /\ keyOf'[c] = k
      /\ live' = live \cup {c}
    BY <1>c, CreateFacts
<1>2. PICK g \in Frame :
          /\ g.at = at /\ g.op = op /\ g.key = k /\ g.ref = None /\ g.ep = c /\ g.old = None
          /\ thread' \in [Thread -> Frame \cup {Idle}] /\ thread'[t] = g
          /\ \A u \in Thread : u # t => thread'[u] = thread[u]
    BY <1>c, CreateFacts
<1>3. c # None /\ Adds(t)' /\ \A u \in Thread : u # t => (Adds(u)' <=> Adds(u))
    BY <1>1, <1>2, ServerFacts DEF Adds
<1>4. \A u \in Thread : u # t /\ Adds(u) => thread[u].key # k
    <2> SUFFICES ASSUME NEW u \in Thread, u # t, Adds(u), thread[u].key = k
                 PROVE  FALSE
        OBVIOUS
    <2>1. Role[k] # {"client", "server"} /\ \A v, w \in Connector : v = w
        BY DEF OneAdder
    <2>2. Role[k] \subseteq {"client", "server"}
        BY RoleAssumption
    <2>3. \/ thread[u].op = "connect" /\ u \in Connector /\ "client" \in Role[k]
          \/ thread[u].op = "accept" /\ u = Server /\ "server" \in Role[k]
        BY DEF Adds, TInv, Where, Place
    <2> QED
        BY <2>1, <2>2, <2>3
<1>5. Own'
    <2>1. \A e \in Ep : entry'[e] # None => entry'[e] = e /\ e \in live'
        BY <1>0, <1>1 DEF Own
    <2>2. \A u \in Thread : Adds(u)' => thread'[u].ep \in live'
        BY <1>0, <1>1, <1>2, <1>3 DEF Own
    <2> QED
        BY <2>1, <2>2 DEF Own
<1>6. Using' /\ Dying' /\ Free'
    <2>1. FrameOK(t, g)'
        BY <1>2 DEF FrameOK
    <2>2. ASSUME NEW u \in Thread, u # t PROVE FrameOK(u, thread[u])'
        BY <1>0, <1>2, <2>2 DEF FrameOK
    <2>3. \A u \in Thread : FrameOK(u, thread[u])'
        BY <1>2, <2>1, <2>2 DEF FrameOK
    <2> QED
        BY <2>3 DEF FrameOK, Using, Dying, Free
<1>7. AddsNewest'
    <2>1. Newest(k, c)'
        <3>1. c <= c
            BY <1>1 DEF Ep
        <3> QED
            BY <1>1, <3>1 DEF Newest
    <2>2. ASSUME NEW u \in Thread, u # t, Adds(u)
          PROVE  Newest(thread[u].key, thread[u].ep)'
        <3>1. Newest(thread[u].key, thread[u].ep) /\ thread[u].key # k /\ thread'[u] = thread[u]
            BY <1>0, <1>2, <1>4, <2>2 DEF AddsNewest
        <3> QED
            BY <1>1, <3>1 DEF Newest
    <2>3. thread'[t].key = k /\ thread'[t].ep = c
        BY <1>2
    <2>4. Newest(thread[t].key, thread[t].ep)'
        BY <2>1, <2>3 DEF Newest
    <2> QED
        BY <1>3, <2>2, <2>4 DEF AddsNewest
<1>8. Reachable'
    <2> SUFFICES ASSUME NEW j \in Key, NEW d \in Ep, Newest(j, d)', d \notin gone',
                        \A u \in Thread : Adds(u)' => thread'[u].ep # d
                 PROVE  map'[j] = d
        BY DEF Reachable
    <2>1. d # c
        BY <1>2, <1>3
    <2>2. d \in Created /\ keyOf[d] = j
        BY <1>1, <2>1 DEF Newest
    <2>3. j # k
        <3>1. keyOf'[c] = j => c <= d
            BY <1>1 DEF Newest
        <3>2. d <= c
            BY <1>1, <2>2
        <3> QED
            BY <1>1, <2>1, <3>1, <3>2 DEF Ep
    <2>4. Newest(j, d)
        BY <1>1, <2>2 DEF Newest
    <2>5. \A u \in Thread : Adds(u) => thread[u].ep # d
        BY <1>2, <1>3
    <2> QED
        BY <1>0, <2>4, <2>5 DEF Reachable
<1> QED
    BY <1>5, <1>6, <1>7, <1>8 DEF SInv

LEMMA DialSafe ==
    ASSUME OneAdder, TInv, SInv, NEW t \in Thread, Dial(t), TInv'
    PROVE  SInv'
<1>0. /\ TypeOK /\ Free /\ Place(t, thread[t]) /\ thread[t].at = "dial"
      /\ Create(t, "connect", "add", thread[t].key)
      /\ UNCHANGED <<map, entry, holder, gone>>
    BY DEF TInv, SInv, Where, Dial
<1>1. thread[t].op = "connect" /\ thread[t].key \in Key
    BY <1>0, FrameFacts DEF Place, Op
<1>2. t \in Connector /\ "client" \in Role[thread[t].key] /\ "connect" \in Op /\ "add" \in At /\ ~Adds(t)
    BY <1>0, <1>1 DEF Place, Op, At, Adds
<1>3. map[thread[t].key] = None
    BY <1>0, <1>1 DEF Free
<1> QED
    BY <1>0, <1>1, <1>2, <1>3, CreateSafe

LEMMA RequestSafe ==
    ASSUME OneAdder, TInv, SInv, NEW k \in Key, Request(k), TInv'
    PROVE  SInv'
<1>0. /\ Create(Server, "accept", "erase", k) /\ "server" \in Role[k]
      /\ ~Adds(Server) /\ UNCHANGED <<map, entry, holder, gone>>
    BY IdleFacts DEF Request, Adds
<1>1. "accept" \in Op /\ "erase" \in At /\ Server \in Thread
    BY ServerFacts DEF Op, At
<1> QED
    BY <1>0, <1>1, CreateSafe

LEMMA AddSafe ==
    ASSUME OneAdder, TInv, SInv, NEW t \in Thread, Add(t)
    PROVE  SInv'
<1>0. /\ TypeOK /\ Where /\ Mapped /\ Fresh /\ Own /\ AddsNewest /\ Reachable /\ Free
      /\ \A u \in Thread : FrameOK(u, thread[u])
      /\ thread[t].at = "add" /\ Place(t, thread[t])
    BY FrameOKs DEF TInv, SInv, Add, Where
<1>1. Adds(t) /\ thread[t].key \in Key /\ thread[t].ep \in Created
    BY AddFacts
<1>2. map[thread[t].key] = None
    BY <1>0, <1>1 DEF Free, Adds
<1>3. PICK c : c = thread[t].ep
    OBVIOUS
<1>4. PICK k \in Key : k = thread[t].key
    BY <1>1
<1>5. /\ c \in Created /\ c \in Ep /\ keyOf[c] = k /\ entry[c] = None /\ c # None
      /\ Newest(k, c) /\ c \in live
      /\ \A u \in Thread : thread[u].ref # c /\ thread[u].old # c
      /\ \A u \in Thread : u # t /\ Adds(u) => thread[u].ep # c
    BY <1>0, <1>1, <1>3, <1>4, CreatedFacts DEF Fresh, Adds, AddsNewest, Own
<1>6. /\ map' = [map EXCEPT ![k] = c] /\ entry' = [entry EXCEPT ![c] = c] /\ live' = live \ {None}
      /\ Return(t) /\ UNCHANGED <<holder, keyOf, gone>>
    BY <1>2, <1>3, <1>4, <1>5 DEF Add
<1>7. /\ thread'[t] = Idle /\ \A u \in Thread : u # t => thread'[u] = thread[u]
    BY <1>0, <1>6, IdleFacts, Going DEF Return
<1>8. /\ map'[k] = c /\ \A j \in Key : j # k => map'[j] = map[j]
      /\ entry'[c] = c /\ \A e \in Ep : e # c => entry'[e] = entry[e]
      /\ live' = live
    <2>1. None \notin live
        BY <1>0, ServerFacts DEF TypeOK
    <2> QED
        BY <1>0, <1>5, <1>6, <2>1 DEF TypeOK
<1>9. \A u \in Thread : Adds(u)' <=> u # t /\ Adds(u)
    BY <1>7, IdleFacts DEF Adds
<1>10. Own'
    BY <1>0, <1>5, <1>7, <1>8, <1>9 DEF Own
<1>11. Using' /\ Dying' /\ Free'
    <2>1. FrameOK(t, Idle)'
        BY IdleFacts DEF FrameOK
    <2>2. ASSUME NEW u \in Thread, u # t PROVE FrameOK(u, thread[u])'
        <3>1. thread'[u] = thread[u] /\ FrameOK(u, thread[u])
            BY <1>0, <1>7, <2>2
        <3>2. /\ thread[u].ref \in Ep \cup {None} /\ thread[u].old \in Ep \cup {None}
              /\ thread[u].at = "use" => thread[u].ref # None
              /\ thread[u].op \in {"connect", "accept"} => thread[u].key \in Key
            BY <1>0, FrameFacts DEF Where, Place
        <3>3. thread[u].op \in {"connect", "accept"} => thread[u].key # k
            BY <1>0, <1>1, <1>4, <2>2, OneAdds DEF Place, Adds
        <3>4. thread[u].at = "use" =>
                  /\ thread[u].ep # None /\ holder'[thread[u].ref] = u
                  /\ entry'[thread[u].ref] = thread[u].ep
            BY <1>5, <1>6, <1>8, <3>1, <3>2 DEF FrameOK
        <3>5. thread[u].at = "destroy" /\ thread[u].old # None => entry'[thread[u].old] = None
            BY <1>5, <1>8, <3>1, <3>2 DEF FrameOK
        <3>6. thread[u].op \in {"connect", "accept"} => map'[thread[u].key] = map[thread[u].key]
            BY <1>8, <3>2, <3>3
        <3> QED
            BY <3>1, <3>4, <3>5, <3>6 DEF FrameOK
    <2>3. \A u \in Thread : FrameOK(u, thread[u])'
        BY <1>7, <2>1, <2>2 DEF FrameOK
    <2> QED
        BY <2>3 DEF FrameOK, Using, Dying, Free
<1>12. Created' = Created /\ \A j, d : Newest(j, d)' <=> Newest(j, d)
    BY <1>6 DEF Created, Newest
<1>13. AddsNewest'
    BY <1>0, <1>7, <1>9, <1>12 DEF AddsNewest
<1>14. Reachable'
    <2> SUFFICES ASSUME NEW j \in Key, NEW d \in Ep, Newest(j, d), d \notin gone,
                        \A u \in Thread : u # t /\ Adds(u) => thread[u].ep # d
                 PROVE  map'[j] = d
        BY <1>6, <1>7, <1>9, <1>12 DEF Reachable
    <2>1. CASE d = c
        <3>1. j = k
            BY <1>5, <2>1 DEF Newest
        <3> QED
            BY <1>8, <2>1, <3>1
    <2>2. CASE d # c
        <3>1. j # k
            BY <1>0, <1>5, <2>2, NewestOne
        <3>2. \A u \in Thread : Adds(u) => thread[u].ep # d
            BY <1>3, <2>2
        <3> QED
            BY <1>0, <1>8, <3>1, <3>2 DEF Reachable
    <2> QED
        BY <2>1, <2>2
<1> QED
    BY <1>10, <1>11, <1>13, <1>14 DEF SInv

----------------------------------------------------------------------------
(***************************************************************************)
(* With one adder: the theorems                                            *)
(***************************************************************************)
LEMMA InitSInv == Init => SInv
<1> SUFFICES ASSUME Init PROVE SInv
    OBVIOUS
<1>1. (\A t \in Thread : thread[t] = Idle) /\ Created = {} /\ \A e \in Ep : entry[e] = None
    BY DEF Init, Created
<1>2. \A t \in Thread : ~Adds(t) /\ thread[t].at = "idle" /\ thread[t].op = "none"
    BY <1>1, IdleFacts DEF Adds
<1>3. Own /\ Using /\ Dying /\ Free
    BY <1>1, <1>2 DEF Own, Using, Dying, Free
<1>4. AddsNewest /\ Reachable
    BY <1>1, <1>2 DEF AddsNewest, Reachable, Newest
<1> QED
    BY <1>3, <1>4 DEF SInv

LEMMA StutterSInv ==
    ASSUME SInv, UNCHANGED vars
    PROVE  SInv'
<1>0. UNCHANGED <<map, entry, holder, live, keyOf, gone, thread>>
    BY DEF vars
<1>1. Created' = Created /\ \A k, d : Newest(k, d)' <=> Newest(k, d)
    BY <1>0 DEF Created, Newest
<1>2. \A u \in Thread : Adds(u)' <=> Adds(u)
    BY <1>0 DEF Adds
<1>3. Own' /\ AddsNewest' /\ Reachable'
    BY <1>0, <1>1, <1>2 DEF SInv, Own, AddsNewest, Reachable
<1>4. Using' /\ Dying' /\ Free'
    BY <1>0 DEF SInv, Using, Dying, Free
<1> QED
    BY <1>3, <1>4 DEF SInv

LEMMA NextSInv ==
    ASSUME OneAdder
    PROVE  TInv /\ SInv /\ [Next]_vars => SInv'
<1> SUFFICES ASSUME TInv, SInv, [Next]_vars PROVE SInv'
    OBVIOUS
<1>0. TInv'
    BY NextTInv
<1>1. ASSUME NEW t \in App, NEW k \in Key, Call(t, k) PROVE SInv'
    BY <1>1, CallSafe
<1>2. ASSUME NEW t \in Thread, Step(t) PROVE SInv'
    BY <1>0, <1>2, LockEntrySafe, FinishUseSafe, DialSafe, DialFailsSafe, AddSafe, EraseSafe,
       UnhookSafe, DestroySafe, MatchSafe, MatchLockSafe DEF Step
<1>3. ASSUME NEW k \in Key, Request(k) PROVE SInv'
    BY <1>0, <1>3, RequestSafe
<1>4. ASSUME NEW c \in Ep, PeerDrops(c) \/ Disconnected(c) PROVE SInv'
    BY <1>4, PeerDropsSafe, DisconnectedSafe
<1>5. CASE UNCHANGED vars
    BY <1>5, StutterSInv
<1> QED
    BY <1>1, <1>2, <1>3, <1>4, <1>5 DEF Next

LEMMA SpecSInv ==
    ASSUME OneAdder
    PROVE  Spec => [](TInv /\ SInv)
<1>1. TInv /\ SInv /\ [Next]_vars => (TInv /\ SInv)'
    BY NextTInv, NextSInv
<1>2. Init => TInv /\ SInv
    BY InitTInv, InitSInv
<1> QED
    BY <1>1, <1>2, PTL DEF Spec

LEMMA SafeUse ==
    ASSUME TInv, SInv
    PROVE  UseIsSafe
<1> SUFFICES ASSUME NEW t \in App, thread[t].at = "use"
             PROVE  /\ thread[t].ep \in live
                    /\ \A u \in App : thread[u].at = "use" /\ thread[u].ep = thread[t].ep => u = t
    BY DEF UseIsSafe
<1>1. \A u \in App : thread[u].at = "use" =>
          /\ thread[u].ref \in Ep /\ thread[u].ep # None
          /\ holder[thread[u].ref] = u /\ entry[thread[u].ref] = thread[u].ep
    BY FrameFacts, ServerFacts DEF TInv, SInv, Where, Place, Using
<1>2. \A u \in App : thread[u].at = "use" => thread[u].ref = thread[u].ep /\ thread[u].ep \in live
    BY <1>1 DEF SInv, Own
<1> QED
    BY <1>1, <1>2

\* When the connections of a peer are established by one thread, a call runs on
\* a live endpoint that no other call is using, with any number of threads
\* that use, look up and disconnect: the entry's mutex, which Unhook and
\* MatchLock wait for, is enough (withEndpoint, _removeEndpoint,
\* _removeEndpointIfMatch).  Add does not wait for it, and is safe because it
\* then never finds an entry to overwrite.
THEOREM CallsAreSafe ==
    ASSUME OneAdder
    PROVE  Spec => []UseIsSafe
<1>1. TInv /\ SInv => UseIsSafe
    BY SafeUse
<1> QED
    BY <1>1, SpecSInv, PTL

\* A nonempty set of endpoints has a greatest element.
LEMMA Greatest ==
    ASSUME NEW n \in Nat, NEW S \in SUBSET (1 .. n), S # {}
    PROVE  \E m \in S : \A c \in S : c <= m
<1> DEFINE D == {n - c : c \in S}
           R == OpToRel(<, Nat)
<1>1. D \subseteq Nat /\ D # {}
    <2>1. \A c \in S : n - c \in Nat
        OBVIOUS
    <2>2. PICK c : c \in S
        OBVIOUS
    <2>3. n - c \in D
        BY <2>2
    <2> QED
        BY <2>1, <2>3
<1>2. IsWellFoundedOn(R, Nat)
    BY NatLessThanWellFounded
<1>3. R = {q \in Nat \X Nat : q[1] < q[2]}
    BY Zenon DEF OpToRel
<1> HIDE DEF R, D
<1>4. PICK d \in D : \A k \in D : ~(<<k, d>> \in R)
    BY <1>1, <1>2, WFMin, Zenon
<1>5. ASSUME NEW k \in D PROVE d <= k
    <2>1. d \in Nat /\ k \in Nat
        BY <1>1
    <2>2. <<k, d>> \in R <=> k < d
        BY <1>3, <2>1
    <2> QED
        BY <1>4, <2>1, <2>2
<1>6. PICK m \in S : d = n - m
    BY DEF D
<1>7. \A c \in S : d <= n - c
    BY <1>5 DEF D
<1> QED
    BY <1>6, <1>7

LEMMA MaxIs ==
    ASSUME NEW S, NEW m \in S, S \subseteq Nat, \A c \in S : c <= m
    PROVE  Max(S) = m
<1> DEFINE x == Max(S)
<1>1. \E y \in S : \A c \in S : y >= c
    OBVIOUS
<1>2. x \in S /\ \A c \in S : x >= c
    BY <1>1, Zenon DEF Max
<1> HIDE DEF x
<1>3. x = m
    BY <1>2
<1> QED
    BY <1>3, Zenon DEF x

LEMMA StaysReachable ==
    ASSUME TInv, SInv
    PROVE  LatestReachable
<1> SUFFICES ASSUME NEW k \in Key
             PROVE  LET cs == {c \in DOMAIN keyOf : keyOf[c] = k}
                    IN  /\ cs # {} /\ Max(cs) \notin gone
                        /\ \A t \in Thread : ~(thread[t].op \in {"connect", "accept"} /\ thread[t].ep = Max(cs))
                        => map[k] # None /\ entry[map[k]] = Max(cs)
    BY DEF LatestReachable
<1> DEFINE cs == {c \in DOMAIN keyOf : keyOf[c] = k}
<1> SUFFICES ASSUME cs # {}, Max(cs) \notin gone,
                    \A t \in Thread : ~(thread[t].op \in {"connect", "accept"} /\ thread[t].ep = Max(cs))
             PROVE  map[k] # None /\ entry[map[k]] = Max(cs)
    OBVIOUS
<1>1. /\ TypeOK /\ Created = 1 .. Len(keyOf) /\ Len(keyOf) \in Nat /\ Created \subseteq Ep
      /\ cs \subseteq 1 .. Len(keyOf) /\ \A c : c \in cs <=> c \in Created /\ keyOf[c] = k
    BY CreatedFacts DEF TInv, Created
<1> HIDE DEF cs
<1>2. PICK m \in cs : \A c \in cs : c <= m
    BY <1>1, Greatest
<1>3. Max(cs) = m
    BY <1>1, <1>2, MaxIs
<1>4. Newest(k, m) /\ m \in Ep
    BY <1>1, <1>2 DEF Newest
<1>5. \A t \in Thread : Adds(t) => thread[t].ep # m
    BY <1>3 DEF Adds
<1>6. map[k] = m
    BY <1>3, <1>4, <1>5 DEF SInv, Reachable
<1> QED
    BY <1>3, <1>4, <1>6, MappedOwn, ServerFacts

\* When the connections of a peer are established by one thread, its newest
\* connection stays in the table until the peer drops it or the application
\* disconnects it: no late DISCONNECTED (takeBind_, _removeEndpointIfMatch) and
\* no removal under way takes a later connection out.
THEOREM NewestStaysReachable ==
    ASSUME OneAdder
    PROVE  Spec => []LatestReachable
<1>1. TInv /\ SInv => LatestReachable
    BY StaysReachable
<1> QED
    BY <1>1, SpecSInv, PTL

=============================================================================
